---- MODULE Spec2Model ----
(***************************************************************************)
(* Version lifecycle of the Google Drive management dashboard.             *)
(*                                                                         *)
(* Two stores are modelled: the storage provider (files and their          *)
(* revisions, src/models/google_drive_utils.py) and the MongoDB            *)
(* "revisions" collection (src/models/mongodb_model.py).  The handlers of  *)
(* src/handlers/version_control_handler.py are the actions.  Every call    *)
(* to the provider or to MongoDB may fail; a failed call raises and has no *)
(* effect on the store it was addressed to.  The set of calls that fail    *)
(* during one handler invocation is an input of the action.                *)
(*                                                                         *)
(* Not modelled: size and mimeType of a revision (only formatted for       *)
(* display), folders, authentication, the Streamlit widgets.               *)
(***************************************************************************)
EXTENDS Integers, Sequences, FiniteSets, TLC

(***************************************************************************)
(* Bounds                                                                  *)
(***************************************************************************)
\* total number of revision ids the provider hands out in one behaviour
MaxRevs == 2
\* number of files UploadFile can create in one behaviour
MaxFiles == 1
\* provider or database calls that fail in one behaviour
MaxFaults == 1
\* metadata entries MongoDB holds for one file
MaxEntries == 3
\* ticks of the provider clock per displayed second (format_date drops
\* everything below the second)
TicksPerSecond == 2
\* revision lists handed to the listing when it is checked on its own
MaxListLen == 3
\* raw timestamps used in those lists
MaxListTime == 3
\* files of the project folder when the file operations are checked on
\* their own
MaxOpsFiles == 2
\* revisions each of those files has at most
MaxOpsRevs == 2
\* folders a file can be moved to
MaxFolders == 2
\* versions of a file that comments are addressed to
MaxCommentVersions == 2
\* ObjectIds the comments collection hands out (comments and replies)
MaxObjectIds == 3
\* comments fetched for a version when the filter is checked on its own
MaxComments == 2
\* characters of a search text of the comment filter
MaxSearchLen == 2
\* ObjectIds handed out while the comment operations of a page or of the
\* handler are followed one by one
MaxPageObjectIds == 2
\* ObjectIds handed out while the operations of the comments handler are
\* followed on any version: three comments on a version leave two after a
\* deletion
MaxStoreObjectIds == 3

FileIds == 1..MaxFiles

\* what a user hands to an upload dialog: a file object with a name and
\* bytes, and a description.  Descriptions are sequences of text fragments;
\* concatenation is \o
Requests == { [name |-> "a.txt", bytes |-> "A", description |-> <<"d1">>],
              [name |-> "b.txt", bytes |-> "B", description |-> <<"d2">>] }

\* what a user types into the revert dialog: nothing or a text
RevertDescriptions == { << >>, <<"d3">> }

VARIABLES
    drive,      \* storage provider: file id -> [exists, name, revisions]
    revdocs,    \* MongoDB revisions collection: file id -> [exists, description, versions]
    clock,      \* provider clock (ticks); modifiedTime the next revision gets
    nextRev,    \* next revision id the provider hands out
    deleted,    \* pairs <<file id, revision id>> for which delete_version returned success
    failures,   \* number of provider and database calls that have failed so far
    shown,      \* st.session_state["versions_for_file_<id>"]: the cached listing
    lastOp,     \* the handler invocation that ran last: inputs, failed calls, result
    place,      \* storage provider: file id -> [parent, trashed]
    comments,   \* MongoDB comments collection: file id -> [exists, versions]
    session     \* st.session_state of the Comments page: [comments, filter_criteria];
                \* for concurrent sessions, the locals of each session's handler

vars == <<drive, revdocs, clock, nextRev, deleted, failures, shown, lastOp,
          place, comments, session>>

(***************************************************************************)
(* Helpers                                                                 *)
(***************************************************************************)
Last(s) == s[Len(s)]
Front(s) == SubSeq(s, 1, Len(s) - 1)
Range(s) == { s[i] : i \in 1..Len(s) }
Ids(s) == { s[i].id : i \in 1..Len(s) }

RECURSIVE Pick(_, _)
\* the elements of s at the positions in I, in the order of s: the options
\* ticked in a multiselect, mapped back in the order of the options
Pick(s, I) ==
    IF s = << >> THEN << >>
    ELSE IF Len(s) \in I THEN Append(Pick(Front(s), I), Last(s))
         ELSE Pick(Front(s), I)

RECURSIVE WithoutId(_, _)
\* the elements of s whose id differs from vid, in order
WithoutId(s, vid) ==
    IF s = << >> THEN << >>
    ELSE IF s[1].id = vid THEN WithoutId(Tail(s), vid)
         ELSE <<s[1]>> \o WithoutId(Tail(s), vid)

\* the subsets of the failure points of a handler that have at most n
\* elements: the calls that fail during one invocation
FaultSets(points, n) == { F \in SUBSET points : Cardinality(F) <= n }

\* a file the provider has placed nowhere yet; folders are numbered from 1
NoPlace == [parent |-> 0, trashed |-> FALSE]

\* no document in the comments collection for a file
NoComments == [exists |-> FALSE, versions |-> << >>]

\* the filter the Comments page starts with, and a session that has fetched
\* no comments
NoFilter == [status |-> "all", search_text |-> << >>, user_filter |-> "all"]
NoSession == [comments |-> << >>, filter_criteria |-> NoFilter]

(***************************************************************************)
(* Storage provider (the Drive API behind google_drive_utils.py)           *)
(***************************************************************************)
\* modifiedTime as the provider sends it: an RFC 3339 string with
\* milliseconds, here the number of ticks it denotes.  BadTime and EmptyTime
\* are two strings datetime.fromisoformat rejects: "not-a-date", which as a
\* string is greater than every date, and "", which is less than every
\* string
RawTime(t) == [parseable |-> TRUE, ticks |-> t]
BadTime == [parseable |-> FALSE, ticks |-> 0]
EmptyTime == [parseable |-> FALSE, ticks |-> -1]

NoFile == [exists |-> FALSE, name |-> "", revisions |-> << >>]

\* revisions().list: the revisions of a file in the provider's order,
\* oldest first
gds_get_versions_of_a_file(d, f, fails) ==
    IF fails \/ ~d[f].exists THEN << >> ELSE d[f].revisions

\* revisions().list and then [-1]; a sequence of at most one revision,
\* empty for the None the code returns when the call failed
gds_get_current_version(d, f, fails) ==
    IF fails \/ ~d[f].exists \/ d[f].revisions = << >>
    THEN << >>
    ELSE << Last(d[f].revisions) >>

\* files().update(body={"name": new_name}); the exception of a rejected
\* call is caught inside and None is returned, the caller sees no failure
gds_rename_file(d, f, new_name, fails) ==
    IF fails \/ ~d[f].exists THEN d ELSE [d EXCEPT ![f].name = new_name]

\* revisions().update(body={"keepForever": keep_forever}); a rejected call
\* is caught inside and reported as False
gds_update_keep_forever_version(d, f, vid, keep_forever, fails) ==
    IF fails \/ ~d[f].exists THEN d
    ELSE [d EXCEPT ![f].revisions =
            [i \in 1..Len(@) |->
                IF @[i].id = vid THEN [@[i] EXCEPT !.keepForever = keep_forever]
                ELSE @[i]]]

\* the provider refuses to delete a revision it does not hold and the last
\* remaining revision of a file
ProviderRejectsDelete(d, f, vid) ==
    \/ ~d[f].exists
    \/ vid \notin Ids(d[f].revisions)
    \/ Len(d[f].revisions) <= 1

\* revisions().delete; ok is the boolean gds_delete_version returns
gds_delete_version(d, f, vid, fails) ==
    IF fails \/ ProviderRejectsDelete(d, f, vid)
    THEN [drive |-> d, ok |-> FALSE]
    ELSE [drive |-> [d EXCEPT ![f].revisions = WithoutId(@, vid)], ok |-> TRUE]

\* files().update with a media body: the provider stores the bytes as a new
\* revision named after the file's name at that moment, and the file takes
\* the name given in the body
ProviderUpdateContent(d, f, now, rid, version_name, bytes) ==
    [d EXCEPT ![f].revisions = Append(@, [id |-> rid,
                                          originalFilename |-> d[f].name,
                                          modifiedTime |-> RawTime(now),
                                          keepForever |-> FALSE,
                                          bytes |-> bytes]),
              ![f].name = version_name]

\* rename, upload, optional pin, rename back.  Every exception is caught
\* inside: ret is "None" when the function returned None, "uploaded" when it
\* returned the provider's answer; created tells whether a revision was stored
gds_upload_version(d, f, file_name, up, keep_forever, now, rid, F) ==
    LET d1 == gds_rename_file(d, f, up.name, "rename1" \in F)
        d2 == ProviderUpdateContent(d1, f, now, rid, up.name, up.bytes)
        cur == gds_get_current_version(d2, f, "getcur_pin" \in F)
        d3 == IF keep_forever
              THEN gds_update_keep_forever_version(d2, f, cur[1].id, TRUE, "pin" \in F)
              ELSE d2
        d4 == gds_rename_file(d3, f, file_name, "rename2" \in F)
    IN  IF "update" \in F \/ ~d[f].exists
        THEN [drive |-> d1, ret |-> "None", created |-> FALSE]
        ELSE IF keep_forever /\ cur = << >>
        THEN [drive |-> d2, ret |-> "None", created |-> TRUE]
        ELSE [drive |-> d4, ret |-> "uploaded", created |-> TRUE]

RECURSIVE PurgeLoop(_, _, _, _, _)
\* the loop of gds_delete_old_versions over the listed ids: every id but
\* current is deleted, a failed deletion is printed and the loop goes on
PurgeLoop(d, f, ids, current, failIds) ==
    IF ids = << >> THEN d
    ELSE LET rid == ids[1]
             r == gds_delete_version(d, f, rid, rid \in failIds)
         IN  IF rid # current
             THEN PurgeLoop(r.drive, f, Tail(ids), current, failIds)
             ELSE PurgeLoop(d, f, Tail(ids), current, failIds)

\* deletes every revision but the last one listed; returns nothing
gds_delete_old_versions(d, f, listFails, failIds) ==
    LET revisions == gds_get_versions_of_a_file(d, f, listFails)
    IN  IF revisions = << >> THEN d
        ELSE PurgeLoop(d, f, [i \in 1..Len(revisions) |-> revisions[i].id],
                       Last(revisions).id, failIds)

\* files().create with a media body: a new file with one revision; f is the
\* id the provider gives the file.  failure is "none", "HttpError" (caught
\* inside, None is returned) or "other" (any other exception, which
\* gds_upload_file lets through: ret is "raised")
gds_upload_file(d, f, up, now, rid, failure) ==
    IF failure = "HttpError" THEN [drive |-> d, ret |-> "None"]
    ELSE IF failure # "none" THEN [drive |-> d, ret |-> "raised"]
    ELSE [drive |-> [d EXCEPT ![f] = [exists |-> TRUE, name |-> up.name,
                        revisions |-> << [id |-> rid,
                                          originalFilename |-> up.name,
                                          modifiedTime |-> RawTime(now),
                                          keepForever |-> FALSE,
                                          bytes |-> up.bytes] >>]],
          ret |-> "file"]

\* gds_revert_version without the return in the except branch of the
\* download: the upload goes on after a failed download
gds_revert_version_no_abort(d, f, file_name, revision_id, revision_name, now, rid, F) ==
    LET found == { i \in 1..Len(d[f].revisions) : d[f].revisions[i].id = revision_id }
        src == d[f].revisions[CHOOSE i \in found : TRUE]
        up == gds_upload_version(d, f, file_name,
                                 [name |-> revision_name, bytes |-> src.bytes],
                                 FALSE, now, rid, F)
    IN  IF ~d[f].exists \/ found = {}
        THEN [drive |-> d, ok |-> FALSE, created |-> FALSE]
        ELSE [drive |-> up.drive, ok |-> "tmpremove" \notin F, created |-> up.created]

\* download the revision to ~/Downloads/<revision_name>, upload that file as
\* a new version (the result of the upload is not looked at), remove the
\* local file.  ok is the boolean the function returns
gds_revert_version(d, f, file_name, revision_id, revision_name, now, rid, F) ==
    LET found == { i \in 1..Len(d[f].revisions) : d[f].revisions[i].id = revision_id }
        src == d[f].revisions[CHOOSE i \in found : TRUE]
        up == gds_upload_version(d, f, file_name,
                                 [name |-> revision_name, bytes |-> src.bytes],
                                 FALSE, now, rid, F)
    IN  IF "download" \in F \/ "tmpwrite" \in F \/ ~d[f].exists \/ found = {}
        THEN [drive |-> d, ok |-> FALSE, created |-> FALSE]
        ELSE [drive |-> up.drive, ok |-> "tmpremove" \notin F, created |-> up.created]

(***************************************************************************)
(* MongoDB revisions collection (mongodb_model.py)                         *)
(***************************************************************************)
NoDoc == [exists |-> FALSE, description |-> << >>, versions |-> << >>]

\* mongo_save_version replacing the entry stored for the version id
mongo_save_version_upsert(m, f, version_id, version_name, description) ==
    LET entry == [id |-> version_id, name |-> version_name, description |-> description]
        Other(e) == e.id # version_id
    IN  IF m[f].exists
        THEN [m EXCEPT ![f].versions = Append(SelectSeq(@, Other), entry)]
        ELSE [m EXCEPT ![f] = [exists |-> TRUE, description |-> description,
                               versions |-> <<entry>>]]

\* revisions_collection.find_one({"file_id": file_id}): whether a document
\* of the file is found
revisions_collection_find_one(m, f) == m[f].exists

\* revisions_collection.update_one(query, {"$setOnInsert": ..., "$push":
\* ...}, upsert=True): the entry is pushed to the versions of the document
\* of the file; were there none, the upsert would insert one
revisions_collection_update_one(m, f, version_id, version_name, description) ==
    LET entry == [id |-> version_id, name |-> version_name, description |-> description]
    IN  IF m[f].exists
        THEN [m EXCEPT ![f].versions = Append(@, entry)]
        ELSE [m EXCEPT ![f] = [exists |-> TRUE, description |-> description,
                               versions |-> <<entry>>]]

\* find_one, then update_one with $push on the existing document or
\* insert_one of a new one; no look at the entries already stored.  The two
\* calls of one invocation with no other writer in between
mongo_save_version(m, f, version_id, version_name, description) ==
    LET entry == [id |-> version_id, name |-> version_name, description |-> description]
    IN  IF revisions_collection_find_one(m, f)
        THEN revisions_collection_update_one(m, f, version_id, version_name, description)
        ELSE [m EXCEPT ![f] = [exists |-> TRUE, description |-> description,
                               versions |-> <<entry>>]]

RECURSIVE WithoutFirstId(_, _)
\* s without the first element whose id is vid
WithoutFirstId(s, vid) ==
    IF s = << >> THEN << >>
    ELSE IF s[1].id = vid THEN Tail(s)
         ELSE <<s[1]>> \o WithoutFirstId(Tail(s), vid)

\* mongo_delete_version removing one entry only
mongo_delete_version_first_only(m, f, version_id) ==
    IF m[f].exists THEN [m EXCEPT ![f].versions = WithoutFirstId(@, version_id)] ELSE m

\* $pull of every entry of the versions array whose id is version_id
mongo_delete_version(m, f, version_id) ==
    IF m[f].exists THEN [m EXCEPT ![f].versions = WithoutId(@, version_id)] ELSE m

\* find_one with the positional projection "versions.$": the first entry of
\* the array with that id; a sequence of at most one entry, empty for None
mongo_get_version(m, f, version_id) ==
    LET found == { i \in 1..Len(m[f].versions) : m[f].versions[i].id = version_id }
    IN  IF ~m[f].exists \/ found = {} THEN << >>
        ELSE << m[f].versions[CHOOSE i \in found : \A j \in found : i <= j] >>


(***************************************************************************)
(* MongoDB comments collection (mongodb_model.py)                          *)
(***************************************************************************)
\* the query part {"versions.id": version_id}
HasVersion(doc, version_id) ==
    \E i \in 1..Len(doc.versions) : doc.versions[i].id = version_id

\* the query part {"versions.comments.id": comment_id}: some version of the
\* document, not necessarily the one asked for, has the comment
DocHasComment(doc, comment_id) ==
    \E i \in 1..Len(doc.versions) :
        \E j \in 1..Len(doc.versions[i].comments) :
            doc.versions[i].comments[j].id = comment_id

\* the query part {"versions.comments.replies.id": reply_id}
DocHasReply(doc, reply_id) ==
    \E i \in 1..Len(doc.versions) :
        \E j \in 1..Len(doc.versions[i].comments) :
            \E k \in 1..Len(doc.versions[i].comments[j].replies) :
                doc.versions[i].comments[j].replies[k].id = reply_id

\* the comments of all versions of the document
DocComments(doc) ==
    UNION {{doc.versions[i].comments[j] : j \in 1..Len(doc.versions[i].comments)} :
              i \in 1..Len(doc.versions)}

\* an update at "versions.$[version].comments.$[...]" with the array filter
\* {"version.id": version_id}: every comment c of every version with that
\* id becomes change[c]
UpdateScope(doc, version_id, change) ==
    [doc EXCEPT !.versions =
        [i \in 1..Len(doc.versions) |->
            IF doc.versions[i].id = version_id
            THEN [doc.versions[i] EXCEPT !.comments =
                    [j \in 1..Len(doc.versions[i].comments) |->
                        change[doc.versions[i].comments[j]]]]
            ELSE doc.versions[i]]]

\* the first version of the document with the id: the element the
\* positional operator "versions.$" stands for
FirstVersion(doc, version_id) ==
    CHOOSE i \in 1..Len(doc.versions) :
        /\ doc.versions[i].id = version_id
        /\ \A j \in 1..(i - 1) : doc.versions[j].id # version_id

\* mongo_save_new_comment putting the comment in front of the stored ones
mongo_save_new_comment_in_front(cm, f, version_id, version_name, user, timestamp, content, oid) ==
    LET comment_data == [id |-> oid, user |-> user, timestamp |-> timestamp,
                         content |-> content, resolved |-> FALSE, replies |-> << >>]
        new_version == [id |-> version_id, name |-> version_name,
                        comments |-> <<comment_data>>]
    IN  IF cm[f].exists /\ HasVersion(cm[f], version_id)
        THEN [comments |-> [cm EXCEPT ![f].versions[FirstVersion(cm[f], version_id)].comments
                                          = <<comment_data>> \o @],
              ret |-> <<comment_data>>]
        ELSE IF cm[f].exists
        THEN [comments |-> [cm EXCEPT ![f].versions = Append(@, new_version)],
              ret |-> <<comment_data>>]
        ELSE [comments |-> [cm EXCEPT ![f] = [exists |-> TRUE,
                                              versions |-> <<new_version>>]],
              ret |-> <<comment_data>>]

\* mongo_save_new_comment; oid is the ObjectId of the new comment.  ret is
\* a sequence of at most one comment, empty for None
mongo_save_new_comment(cm, f, version_id, version_name, user, timestamp, content, oid) ==
    LET comment_data == [id |-> oid, user |-> user, timestamp |-> timestamp,
                         content |-> content, resolved |-> FALSE, replies |-> << >>]
        new_version == [id |-> version_id, name |-> version_name,
                        comments |-> <<comment_data>>]
    IN  IF cm[f].exists /\ HasVersion(cm[f], version_id)
        THEN [comments |-> [cm EXCEPT ![f].versions[FirstVersion(cm[f], version_id)].comments
                                          = Append(@, comment_data)],
              ret |-> <<comment_data>>]
        ELSE IF cm[f].exists
        THEN [comments |-> [cm EXCEPT ![f].versions = Append(@, new_version)],
              ret |-> <<comment_data>>]
        ELSE [comments |-> [cm EXCEPT ![f] = [exists |-> TRUE,
                                              versions |-> <<new_version>>]],
              ret |-> <<comment_data>>]

\* mongo_save_reply without the array filter on the version: the reply goes
\* to the comment with the id in whichever version holds it
mongo_save_reply_any_version(cm, f, version_id, parent_comment_id, user, timestamp, content, oid, fails) ==
    LET reply_data == [id |-> oid, user |-> user, timestamp |-> timestamp,
                       content |-> content]
        Push == [c \in DocComments(cm[f]) |->
                    IF c.id = parent_comment_id
                    THEN [c EXCEPT !.replies = Append(@, reply_data)] ELSE c]
        matched == /\ cm[f].exists
                   /\ HasVersion(cm[f], version_id)
                   /\ DocHasComment(cm[f], parent_comment_id)
        new == [cm[f] EXCEPT !.versions =
                  [i \in 1..Len(cm[f].versions) |->
                      [cm[f].versions[i] EXCEPT !.comments =
                          [j \in 1..Len(cm[f].versions[i].comments) |->
                              Push[cm[f].versions[i].comments[j]]]]]]
    IN  IF matched /\ new # cm[f] /\ ~fails
        THEN [comments |-> [cm EXCEPT ![f] = new], ret |-> <<reply_data>>]
        ELSE [comments |-> cm, ret |-> << >>]

\* mongo_save_reply: the query finds the document, the update pushes the
\* reply to the comments with the id inside the versions with the id, and
\* the reply is returned when modified_count > 0.  fails: the store applies
\* nothing and update_one reports modified_count 0; None is returned
mongo_save_reply(cm, f, version_id, parent_comment_id, user, timestamp, content, oid, fails) ==
    LET reply_data == [id |-> oid, user |-> user, timestamp |-> timestamp,
                       content |-> content]
        Push == [c \in DocComments(cm[f]) |->
                    IF c.id = parent_comment_id
                    THEN [c EXCEPT !.replies = Append(@, reply_data)] ELSE c]
        matched == /\ cm[f].exists
                   /\ HasVersion(cm[f], version_id)
                   /\ DocHasComment(cm[f], parent_comment_id)
        new == UpdateScope(cm[f], version_id, Push)
    IN  IF matched /\ new # cm[f] /\ ~fails
        THEN [comments |-> [cm EXCEPT ![f] = new], ret |-> <<reply_data>>]
        ELSE [comments |-> cm, ret |-> << >>]

\* mongo_delete_reply emptying the replies of the comment that holds the reply
mongo_delete_reply_clears_replies(cm, f, version_id, reply_id) ==
    LET Pull == [c \in DocComments(cm[f]) |->
                    IF \E k \in 1..Len(c.replies) : c.replies[k].id = reply_id
                    THEN [c EXCEPT !.replies = << >>] ELSE c]
        matched == /\ cm[f].exists
                   /\ HasVersion(cm[f], version_id)
                   /\ DocHasReply(cm[f], reply_id)
        new == UpdateScope(cm[f], version_id, Pull)
    IN  IF matched /\ new # cm[f]
        THEN [comments |-> [cm EXCEPT ![f] = new], ok |-> TRUE]
        ELSE [comments |-> cm, ok |-> FALSE]

\* mongo_delete_reply: $pull of the replies with the id from every comment
\* of the versions with the id; ok is modified_count > 0
mongo_delete_reply(cm, f, version_id, reply_id) ==
    LET Keep(r) == r.id # reply_id
        Pull == [c \in DocComments(cm[f]) |->
                    [c EXCEPT !.replies = SelectSeq(@, Keep)]]
        matched == /\ cm[f].exists
                   /\ HasVersion(cm[f], version_id)
                   /\ DocHasReply(cm[f], reply_id)
        new == UpdateScope(cm[f], version_id, Pull)
    IN  IF matched /\ new # cm[f]
        THEN [comments |-> [cm EXCEPT ![f] = new], ok |-> TRUE]
        ELSE [comments |-> cm, ok |-> FALSE]

\* mongo_update_comment_resolved_status flipping the flag instead of
\* setting it
mongo_update_comment_resolved_status_toggle(cm, f, version_id, comment_id, resolved) ==
    LET Set == [c \in DocComments(cm[f]) |->
                   IF c.id = comment_id THEN [c EXCEPT !.resolved = ~@] ELSE c]
        matched == /\ cm[f].exists
                   /\ HasVersion(cm[f], version_id)
                   /\ DocHasComment(cm[f], comment_id)
        new == UpdateScope(cm[f], version_id, Set)
    IN  IF matched /\ new # cm[f]
        THEN [comments |-> [cm EXCEPT ![f] = new], ok |-> TRUE]
        ELSE [comments |-> cm, ok |-> FALSE]

\* mongo_update_comment_resolved_status: $set of resolved on the comments
\* with the id inside the versions with the id; ok is modified_count > 0
mongo_update_comment_resolved_status(cm, f, version_id, comment_id, resolved) ==
    LET Set == [c \in DocComments(cm[f]) |->
                   IF c.id = comment_id THEN [c EXCEPT !.resolved = resolved] ELSE c]
        matched == /\ cm[f].exists
                   /\ HasVersion(cm[f], version_id)
                   /\ DocHasComment(cm[f], comment_id)
        new == UpdateScope(cm[f], version_id, Set)
    IN  IF matched /\ new # cm[f]
        THEN [comments |-> [cm EXCEPT ![f] = new], ok |-> TRUE]
        ELSE [comments |-> cm, ok |-> FALSE]

\* mongo_update_comment_content: $set of content on the comments with the
\* id inside the versions with the id; ok is modified_count > 0
mongo_update_comment_content(cm, f, version_id, comment_id, new_content) ==
    LET Set == [c \in DocComments(cm[f]) |->
                   IF c.id = comment_id THEN [c EXCEPT !.content = new_content] ELSE c]
        matched == /\ cm[f].exists
                   /\ HasVersion(cm[f], version_id)
                   /\ DocHasComment(cm[f], comment_id)
        new == UpdateScope(cm[f], version_id, Set)
    IN  IF matched /\ new # cm[f]
        THEN [comments |-> [cm EXCEPT ![f] = new], ok |-> TRUE]
        ELSE [comments |-> cm, ok |-> FALSE]

\* mongo_delete_comment pulling the comment from every version of the file
mongo_delete_comment_any_version(cm, f, version_id, comment_id) ==
    LET Other(c) == c.id # comment_id
        matched == cm[f].exists /\ HasVersion(cm[f], version_id)
        new == [cm[f] EXCEPT !.versions =
                  [i \in 1..Len(cm[f].versions) |->
                      [cm[f].versions[i] EXCEPT !.comments = SelectSeq(@, Other)]]]
    IN  IF matched /\ new # cm[f]
        THEN [comments |-> [cm EXCEPT ![f] = new], ok |-> TRUE]
        ELSE [comments |-> cm, ok |-> FALSE]

\* mongo_delete_comment: $pull at "versions.$.comments", the comments of
\* the first version with the id, of the comments with the id; ok is
\* modified_count > 0
mongo_delete_comment(cm, f, version_id, comment_id) ==
    LET Other(c) == c.id # comment_id
        matched == cm[f].exists /\ HasVersion(cm[f], version_id)
        new == IF matched
               THEN [cm[f] EXCEPT !.versions[FirstVersion(cm[f], version_id)].comments
                                      = SelectSeq(@, Other)]
               ELSE cm[f]
    IN  IF matched /\ new # cm[f]
        THEN [comments |-> [cm EXCEPT ![f] = new], ok |-> TRUE]
        ELSE [comments |-> cm, ok |-> FALSE]

\* mongo_get_comments_of_version: the comments of the first version with
\* the id, or an empty list
mongo_get_comments_of_version(cm, f, version_id) ==
    IF cm[f].exists /\ HasVersion(cm[f], version_id)
    THEN cm[f].versions[FirstVersion(cm[f], version_id)].comments
    ELSE << >>


(***************************************************************************)
(* Formatting and listing                                                  *)
(***************************************************************************)
\* the "N/A" format_date returns for a string it cannot parse
NA == [valid |-> FALSE, sec |-> 0]

\* the local zone of the server: at the second FallBackAt the clocks are
\* set back by FallBackBy seconds (the end of daylight saving); times
\* that are all before it, or all after it, are shifted alike, as in a
\* zone with a fixed offset
FallBackAt == 1
FallBackBy == 2

\* astimezone(tz.tzlocal()): the wall-clock second of a UTC second
LocalWallSecond(sec) == IF sec < FallBackAt THEN sec + FallBackBy ELSE sec

\* strftime("%Y-%m-%d %H:%M:%S") of the parsed time in the local zone: the
\* part below the second is dropped and the string does not tell the
\* offset; sec is the wall-clock second the string shows, and the strings
\* compare as these seconds do
format_date(date_input) ==
    IF date_input.parseable
    THEN [valid |-> TRUE,
          sec |-> LocalWallSecond(date_input.ticks \div TicksPerSecond)]
    ELSE NA

\* the default description of a version MongoDB has no entry for
NADescription == <<"N/A">>

\* the sort key (x["modifiedTime"] != "N/A", x["modifiedTime"] or ""),
\* compared as Python compares tuples: False before True, then the string
DisplayKeyLess(a, b) ==
    \/ ~a.modifiedTime.valid /\ b.modifiedTime.valid
    \/ /\ a.modifiedTime.valid /\ b.modifiedTime.valid
       /\ a.modifiedTime.sec < b.modifiedTime.sec

RECURSIVE InsertByDisplayKey(_, _)
\* x goes behind every element whose key is not greater: list.sort is stable
InsertByDisplayKey(s, x) ==
    IF s = << >> THEN <<x>>
    ELSE IF DisplayKeyLess(x, Last(s))
         THEN Append(InsertByDisplayKey(Front(s), x), Last(s))
         ELSE Append(s, x)

RECURSIVE SortByDisplayKey(_)
\* versions.sort(key=...)
SortByDisplayKey(s) ==
    IF s = << >> THEN << >>
    ELSE InsertByDisplayKey(SortByDisplayKey(Front(s)), Last(s))

\* one listed version: the provider's fields formatted, the description
\* from MongoDB or "N/A"
DecorateVersion(m, f, version) ==
    LET version_on_mongo == mongo_get_version(m, f, version.id)
    IN  [id |-> version.id,
         originalFilename |-> version.originalFilename,
         modifiedTime |-> format_date(version.modifiedTime),
         keepForever |-> version.keepForever,
         description |-> IF version_on_mongo # << >>
                         THEN version_on_mongo[1].description
                         ELSE NADescription]

\* VersionControlHandler.get_versions_of_file_for_display: fetch, format,
\* decorate, sort, number from 1.  fails: the provider's listing call
\* failed, and the handler goes on with the empty list it is given
get_versions_of_file_for_display(d, m, f, fails) ==
    LET versions == gds_get_versions_of_a_file(d, f, fails)
        decorated == [i \in 1..Len(versions) |-> DecorateVersion(m, f, versions[i])]
        sorted == SortByDisplayKey(decorated)
    IN  [i \in 1..Len(sorted) |->
            [id |-> sorted[i].id,
             originalFilename |-> sorted[i].originalFilename,
             modifiedTime |-> sorted[i].modifiedTime,
             keepForever |-> sorted[i].keepForever,
             description |-> sorted[i].description,
             versionNumber |-> i]]

\* key=lambda x: x["modifiedTime"], reverse=True: the raw strings are
\* compared as strings and never parsed.  Two dates compare as their times
\* do; "" is less than every other string and "not-a-date" greater than
\* every date
RawKeyGreater(a, b) ==
    LET x == a.modifiedTime
        y == b.modifiedTime
    IN  IF x.parseable /\ y.parseable THEN x.ticks > y.ticks
        ELSE IF x = y \/ x = EmptyTime THEN FALSE
        ELSE IF y = EmptyTime THEN TRUE
        ELSE x = BadTime

RECURSIVE InsertByRawKeyDesc(_, _)
\* sorted(..., reverse=True) keeps the order of elements with equal keys
InsertByRawKeyDesc(s, x) ==
    IF s = << >> THEN <<x>>
    ELSE IF RawKeyGreater(x, Last(s))
         THEN Append(InsertByRawKeyDesc(Front(s), x), Last(s))
         ELSE Append(s, x)

RECURSIVE SortByRawKeyDesc(_)
\* sorted(versions, key=..., reverse=True)
SortByRawKeyDesc(s) ==
    IF s = << >> THEN << >>
    ELSE InsertByRawKeyDesc(SortByRawKeyDesc(Front(s)), Last(s))

\* CommentsHandler.get_sorted_versions_of_a_file: newest first,
\* originalFilename becomes name, and the first name gets the suffix
\* " (current version)".  A name is the pair of the file name and the
\* suffixes appended to it.  fails: the provider's listing call failed;
\* the list is then empty and no entry has the suffix
get_sorted_versions_of_a_file(d, f, fails) ==
    LET versions == gds_get_versions_of_a_file(d, f, fails)
        versions_sorted == SortByRawKeyDesc(versions)
    IN  [i \in 1..Len(versions_sorted) |->
            [id |-> versions_sorted[i].id,
             modifiedTime |-> versions_sorted[i].modifiedTime,
             name |-> <<versions_sorted[i].originalFilename>>
                      \o (IF i = 1 THEN <<" (current version)">> ELSE << >>)]]

(***************************************************************************)
(* Handlers (version_control_handler.py)                                   *)
(***************************************************************************)
Digit(n) == <<"0", "1", "2", "3", "4", "5", "6", "7", "8", "9">>[n + 1]

RECURSIVE IntToStr(_)
\* the decimal digits an f-string writes for a number
IntToStr(n) == IF n < 10 THEN <<Digit(n)>> ELSE IntToStr(n \div 10) \o <<Digit(n % 10)>>

\* f"Reverted from version {versionNumber} '{version_name}'."
AutoDescription(versionNumber, version_name) ==
    <<"Reverted from version ">> \o IntToStr(versionNumber)
        \o <<" '", version_name, "'.">>

\* f"{description}\n({auto_description})" if description else auto_description
FullDescription(description, auto_description) ==
    IF description # << >>
    THEN description \o <<"\n(">> \o auto_description \o <<")">>
    ELSE auto_description

\* the failure points of each handler: the provider and database calls it makes
UploadVersionFaults(keep_forever, keep_only_latest_version) ==
    {"rename1", "update", "rename2", "getcur", "mongo_save"}
        \cup (IF keep_forever THEN {"getcur_pin", "pin"} ELSE {})
        \cup (IF keep_only_latest_version THEN {"purge_list"} ELSE {})
RevertVersionFaults == {"download", "tmpwrite", "rename1", "update", "rename2",
                        "tmpremove", "getcur", "mongo_save"}
UploadFileFaults == {"create", "create_raise", "list", "mongo_save"}

\* how files().create fails under the faults F: with an HttpError or with
\* another exception
CreateFailure(F) ==
    IF "create" \in F THEN "HttpError"
    ELSE IF "create_raise" \in F THEN "other"
    ELSE "none"
DeleteVersionFaults == {"gds_delete", "mongo_delete"}

\* VersionControlHandler.upload_version.  Step 1 cannot raise, for
\* gds_upload_version and gds_delete_old_versions catch everything; step 2
\* fails when the current version cannot be fetched or the save raises
upload_version(d, m, f, file_name, up, description, keep_forever, keep_only_latest_version, now, rid, F, failIds) ==
    LET r == gds_upload_version(d, f, file_name, up, keep_forever, now, rid, F)
        d1 == IF keep_only_latest_version
              THEN gds_delete_old_versions(r.drive, f, "purge_list" \in F, failIds)
              ELSE r.drive
        curr_version == gds_get_current_version(d1, f, "getcur" \in F)
    IN  IF curr_version = << >>
        THEN [drive |-> d1, revdocs |-> m, ok |-> FALSE, raised |-> FALSE,
              calls |-> {}, created |-> r.created]
        ELSE IF "mongo_save" \in F
        THEN [drive |-> d1, revdocs |-> m, ok |-> FALSE, raised |-> FALSE,
              calls |-> {"mongo_save_version"}, created |-> r.created]
        ELSE [drive |-> d1,
              revdocs |-> mongo_save_version(m, f, curr_version[1].id,
                              curr_version[1].originalFilename, description),
              ok |-> TRUE, raised |-> FALSE,
              calls |-> {"mongo_save_version"}, created |-> r.created]

\* VersionControlHandler.revert_version
revert_version(d, m, f, file_name, version_to_revert, description, now, rid, F) ==
    LET version_name == version_to_revert.originalFilename
        r == gds_revert_version(d, f, file_name, version_to_revert.id,
                                version_name, now, rid, F)
        auto_description == AutoDescription(version_to_revert.versionNumber, version_name)
        full_description == FullDescription(description, auto_description)
        new_version == gds_get_current_version(r.drive, f, "getcur" \in F)
    IN  IF ~r.ok
        THEN [drive |-> r.drive, revdocs |-> m, ok |-> FALSE, raised |-> FALSE,
              calls |-> {}, created |-> r.created]
        ELSE IF new_version = << >>
        THEN [drive |-> r.drive, revdocs |-> m, ok |-> FALSE, raised |-> FALSE,
              calls |-> {}, created |-> r.created]
        ELSE IF "mongo_save" \in F
        THEN [drive |-> r.drive, revdocs |-> m, ok |-> FALSE, raised |-> FALSE,
              calls |-> {"mongo_save_version"}, created |-> r.created]
        ELSE [drive |-> r.drive,
              revdocs |-> mongo_save_version(m, f, new_version[1].id,
                              new_version[1].originalFilename, full_description),
              ok |-> TRUE, raised |-> FALSE,
              calls |-> {"mongo_save_version"}, created |-> r.created]

\* upload_file reporting success although mongo_save_version raised
upload_file_save_failure_ok(d, m, f, up, description, now, rid, F) ==
    LET r == gds_upload_file(d, f, up, now, rid, CreateFailure(F))
        revisions_of_file == gds_get_versions_of_a_file(r.drive, f, "list" \in F)
    IN  IF r.ret \in {"None", "raised"}
        THEN [drive |-> r.drive, revdocs |-> m, ok |-> FALSE, raised |-> FALSE,
              calls |-> {}, created |-> FALSE]
        ELSE IF revisions_of_file = << >>
        THEN [drive |-> r.drive, revdocs |-> m, ok |-> FALSE, raised |-> FALSE,
              calls |-> {}, created |-> TRUE]
        ELSE IF "mongo_save" \in F
        THEN [drive |-> r.drive, revdocs |-> m, ok |-> TRUE, raised |-> FALSE,
              calls |-> {"mongo_save_version"}, created |-> TRUE]
        ELSE [drive |-> r.drive,
              revdocs |-> mongo_save_version(m, f, revisions_of_file[1].id,
                              revisions_of_file[1].originalFilename, description),
              ok |-> TRUE, raised |-> FALSE,
              calls |-> {"mongo_save_version"}, created |-> TRUE]

\* VersionControlHandler.upload_file; f is the id of the file the provider
\* creates
upload_file(d, m, f, up, description, now, rid, F) ==
    LET r == gds_upload_file(d, f, up, now, rid, CreateFailure(F))
        revisions_of_file == gds_get_versions_of_a_file(r.drive, f, "list" \in F)
    IN  IF r.ret \in {"None", "raised"}
        THEN [drive |-> r.drive, revdocs |-> m, ok |-> FALSE, raised |-> FALSE,
              calls |-> {}, created |-> FALSE]
        ELSE IF revisions_of_file = << >>
        THEN [drive |-> r.drive, revdocs |-> m, ok |-> FALSE, raised |-> FALSE,
              calls |-> {}, created |-> TRUE]
        ELSE IF "mongo_save" \in F
        THEN [drive |-> r.drive, revdocs |-> m, ok |-> FALSE, raised |-> FALSE,
              calls |-> {"mongo_save_version"}, created |-> TRUE]
        ELSE [drive |-> r.drive,
              revdocs |-> mongo_save_version(m, f, revisions_of_file[1].id,
                              revisions_of_file[1].originalFilename, description),
              ok |-> TRUE, raised |-> FALSE,
              calls |-> {"mongo_save_version"}, created |-> TRUE]

\* delete_version with the MongoDB deletion outside the if: it runs whether
\* or not the provider deleted the revision
delete_version_unconditional(d, m, f, version_id, F) ==
    LET r == gds_delete_version(d, f, version_id, "gds_delete" \in F)
    IN  IF "mongo_delete" \in F
        THEN [drive |-> r.drive, revdocs |-> m, ok |-> FALSE, raised |-> TRUE,
              calls |-> {"mongo_delete_version"}, created |-> FALSE]
        ELSE [drive |-> r.drive, revdocs |-> mongo_delete_version(m, f, version_id),
              ok |-> r.ok, raised |-> FALSE,
              calls |-> {"mongo_delete_version"}, created |-> FALSE]

\* delete_version with a try/except around the MongoDB deletion that
\* swallows the exception and reports success
delete_version_swallow(d, m, f, version_id, F) ==
    LET r == gds_delete_version(d, f, version_id, "gds_delete" \in F)
    IN  IF ~r.ok
        THEN [drive |-> r.drive, revdocs |-> m, ok |-> FALSE, raised |-> FALSE,
              calls |-> {}, created |-> FALSE]
        ELSE IF "mongo_delete" \in F
        THEN [drive |-> r.drive, revdocs |-> m, ok |-> TRUE, raised |-> FALSE,
              calls |-> {"mongo_delete_version"}, created |-> FALSE]
        ELSE [drive |-> r.drive, revdocs |-> mongo_delete_version(m, f, version_id),
              ok |-> TRUE, raised |-> FALSE,
              calls |-> {"mongo_delete_version"}, created |-> FALSE]

\* VersionControlHandler.delete_version: the provider first, MongoDB only
\* when the provider deleted; an exception of mongo_delete_version is not
\* caught and leaves the handler (raised)
delete_version(d, m, f, version_id, F) ==
    LET r == gds_delete_version(d, f, version_id, "gds_delete" \in F)
    IN  IF ~r.ok
        THEN [drive |-> r.drive, revdocs |-> m, ok |-> FALSE, raised |-> FALSE,
              calls |-> {}, created |-> FALSE]
        ELSE IF "mongo_delete" \in F
        THEN [drive |-> r.drive, revdocs |-> m, ok |-> FALSE, raised |-> TRUE,
              calls |-> {"mongo_delete_version"}, created |-> FALSE]
        ELSE [drive |-> r.drive, revdocs |-> mongo_delete_version(m, f, version_id),
              ok |-> TRUE, raised |-> FALSE,
              calls |-> {"mongo_delete_version"}, created |-> FALSE]

\* the (success, message) pair delete_version returns when it returns
delete_version_result(r) ==
    [success |-> r.ok,
     message |-> IF r.ok THEN "Version deleted successfully."
                 ELSE "Failed to delete version."]

\* str(e) of an exception, in the messages that end with it
ErrorText == "str(e)"

\* files().update(addParents, removeParents): in a shared drive a file has
\* one parent, which becomes new_parent_id; the exception of a rejected call
\* is caught inside, shown with st.error, and None is returned
gds_move_file(pl, f, current_parent_id, new_parent_id, fails) ==
    IF fails
    THEN [place |-> pl,
          errors |-> << [success |-> FALSE,
                         message |-> <<"An error occurred: ", ErrorText>>] >>]
    ELSE [place |-> [pl EXCEPT ![f].parent = new_parent_id], errors |-> << >>]

\* files().update(body={"trashed": False}); ok is the boolean returned
gds_restore_file(pl, f, fails) ==
    IF fails THEN [place |-> pl, ok |-> FALSE]
    ELSE [place |-> [pl EXCEPT ![f].trashed = FALSE], ok |-> TRUE]

\* VersionControlHandler.rename_file: gds_rename_file raises nothing, so
\* the except branch is never taken
rename_file(d, f, new_name, fails) ==
    [drive |-> gds_rename_file(d, f, new_name, fails),
     ok |-> TRUE, message |-> <<"File renamed successfully.">>]

\* VersionControlHandler.move_file: the same shape; errors is what
\* gds_move_file displayed during the call
move_file(pl, f, curr_folder_id, new_folder_id, fails) ==
    LET r == gds_move_file(pl, f, curr_folder_id, new_folder_id, fails)
    IN  [place |-> r.place, errors |-> r.errors,
         ok |-> TRUE, message |-> <<"File moved successfully.">>]

\* VersionControlHandler.update_version_keep_forever: the boolean
\* gds_update_keep_forever_version returns is not looked at
update_version_keep_forever(d, f, version_id, keep_forever, fails) ==
    [drive |-> gds_update_keep_forever_version(d, f, version_id, keep_forever, fails),
     ok |-> TRUE, message |-> <<"Keep forever status updated successfully.">>]

\* VersionControlHandler.restore_file
restore_file(pl, f, fails) ==
    LET r == gds_restore_file(pl, f, fails)
    IN  [place |-> r.place, ok |-> r.ok,
         message |-> IF r.ok THEN <<"File restored successfully.">>
                     ELSE <<"Failed to restore file.">>]

(***************************************************************************)
(* Batch callbacks of the Versions page (version_control_controller.py)    *)
(***************************************************************************)
\* what a callback has done so far: the stores, the items the handler was
\* called for, what each call returned (the success flags in results, the
\* pairs of flag and message in returns), the feedback displayed, the count
\* of successes, and whether a handler call raised
BatchStart(d, m, pl) ==
    [drive |-> d, revdocs |-> m, place |-> pl, attempted |-> << >>,
     results |-> << >>, returns |-> << >>, feedback |-> << >>,
     success_count |-> 0, raised |-> FALSE]

\* one pass of a callback's loop body after the handler returned
\* (success, message): count a success, display a failure
BatchCount(st, item, success, message) ==
    [st EXCEPT !.attempted = Append(@, item),
               !.results = Append(@, success),
               !.returns = Append(@, [success |-> success, message |-> message]),
               !.success_count = IF success THEN @ + 1 ELSE @,
               !.feedback = IF success THEN @
                            ELSE Append(@, [success |-> FALSE, message |-> message])]

\* the aggregate message after the loop: f"{verb} {success_count} of {n} {noun}."
BatchReport(st, n, verb, noun) ==
    [st EXCEPT !.feedback =
        Append(@, [success |-> (st.success_count = n),
                   message |-> <<verb>> \o IntToStr(st.success_count) \o <<" of ">>
                                  \o IntToStr(n) \o <<noun>>])]

RECURSIVE DeleteVersionsLoop(_, _, _, _, _)
\* for version in selected_versions: handler.delete_version(...); an
\* exception of the handler leaves the loop
DeleteVersionsLoop(st, f, selected_versions, fa, i) ==
    IF i > Len(selected_versions) \/ st.raised THEN st
    ELSE LET r == delete_version(st.drive, st.revdocs, f, selected_versions[i], fa[i])
             counted == BatchCount(st, selected_versions[i], r.ok,
                                   <<delete_version_result(r).message>>)
         IN  DeleteVersionsLoop(
                 IF r.raised
                 THEN [st EXCEPT !.drive = r.drive, !.revdocs = r.revdocs,
                                 !.attempted = Append(@, selected_versions[i]),
                                 !.raised = TRUE]
                 ELSE [counted EXCEPT !.drive = r.drive, !.revdocs = r.revdocs],
                 f, selected_versions, fa, i + 1)

\* _handle_version_deletion.on_delete_callback: an exception of the handler
\* leaves the callback before the aggregate message
on_delete_callback(d, m, pl, f, selected_versions, fa) ==
    LET st == DeleteVersionsLoop(BatchStart(d, m, pl), f, selected_versions, fa, 1)
    IN  IF st.raised THEN st
        ELSE BatchReport(st, Len(selected_versions), "Deleted ", " versions.")

\* _handle_version_deletion: the try/except around the call that opens the
\* dialog.  The Confirm click of a dialog (@st.dialog) runs the dialog
\* function again on its own, outside this try (in_try FALSE): an exception
\* of the callback then reaches Streamlit and no message is displayed.
\* in_try is TRUE when the callback runs inside the call that opened the
\* dialog
_handle_version_deletion(d, m, pl, f, selected_versions, fa, in_try) ==
    LET st == on_delete_callback(d, m, pl, f, selected_versions, fa)
    IN  IF st.raised /\ in_try
        THEN [st EXCEPT !.feedback =
                Append(@, [success |-> FALSE,
                           message |-> <<"An error occurred while deleting the version(s): ",
                                         ErrorText>>])]
        ELSE st

RECURSIVE MoveFilesLoop(_, _, _, _, _)
MoveFilesLoop(st, selected_files, new_folder_id, fa, i) ==
    IF i > Len(selected_files) THEN st
    ELSE LET file == selected_files[i]
             r == move_file(st.place, file.id, file.folder_id, new_folder_id,
                            fa[i] # {})
             shown_errors == [st EXCEPT !.feedback = @ \o r.errors]
         IN  MoveFilesLoop([BatchCount(shown_errors, file.id, r.ok, r.message)
                               EXCEPT !.place = r.place],
                           selected_files, new_folder_id, fa, i + 1)

\* _handle_file_move.on_move_callback
on_move_callback(d, m, pl, selected_files, selected_folder, fa) ==
    BatchReport(MoveFilesLoop(BatchStart(d, m, pl), selected_files, selected_folder, fa, 1),
                Len(selected_files), "Moved ", " files.")

RECURSIVE RenameFilesLoop(_, _, _, _)
RenameFilesLoop(st, new_names, fa, i) ==
    IF i > Len(new_names) THEN st
    ELSE LET r == rename_file(st.drive, new_names[i].id, new_names[i].name, fa[i] # {})
         IN  RenameFilesLoop([BatchCount(st, new_names[i].id, r.ok, r.message)
                                 EXCEPT !.drive = r.drive],
                             new_names, fa, i + 1)

\* _handle_file_rename.on_rename_callback; new_names is the dict
\* {file_id: new_name} in its insertion order
on_rename_callback(d, m, pl, new_names, fa) ==
    BatchReport(RenameFilesLoop(BatchStart(d, m, pl), new_names, fa, 1),
                Len(new_names), "Renamed ", " files.")

RECURSIVE RestoreFilesLoop(_, _, _, _)
RestoreFilesLoop(st, selected_files, fa, i) ==
    IF i > Len(selected_files) THEN st
    ELSE LET r == restore_file(st.place, selected_files[i], fa[i] # {})
         IN  RestoreFilesLoop([BatchCount(st, selected_files[i], r.ok, r.message)
                                  EXCEPT !.place = r.place],
                              selected_files, fa, i + 1)

\* _handle_file_restore.on_restore_callback
on_restore_callback(d, m, pl, selected_files, fa) ==
    BatchReport(RestoreFilesLoop(BatchStart(d, m, pl), selected_files, fa, 1),
                Len(selected_files), "Restored ", " files.")

RECURSIVE ToggleVersionsLoop(_, _, _, _, _, _)
\* for version in batch_selected_versions:
\* handler.update_version_keep_forever(selected_file["id"], version["id"],
\* keep_forever)
ToggleVersionsLoop(st, f, selected_versions, keep_forever, fa, i) ==
    IF i > Len(selected_versions) THEN st
    ELSE LET r == update_version_keep_forever(st.drive, f, selected_versions[i],
                                              keep_forever, fa[i] # {})
         IN  ToggleVersionsLoop([BatchCount(st, selected_versions[i], r.ok, r.message)
                                    EXCEPT !.drive = r.drive],
                                f, selected_versions, keep_forever, fa, i + 1)

\* _handle_toggle_keep_forever.on_toggle_callback: the loop and the message
\* f"Set Keep Forever to {'ON' if keep_forever else 'OFF'} for
\* {success_count} versions.", a success when success_count > 0
on_toggle_callback(d, m, pl, f, selected_versions, keep_forever, fa) ==
    LET st == ToggleVersionsLoop(BatchStart(d, m, pl), f, selected_versions,
                                 keep_forever, fa, 1)
    IN  [st EXCEPT !.feedback =
            Append(@, [success |-> st.success_count > 0,
                       message |-> <<"Set Keep Forever to ",
                                     IF keep_forever THEN "ON" ELSE "OFF", " for ">>
                                   \o IntToStr(st.success_count) \o <<" versions.">>])]

(***************************************************************************)
(* Comments handler (comments_handler.py)                                  *)
(***************************************************************************)
\* strftime("%Y-%m-%d %H:%M:%S") of datetime.now(): the time to the second
CommentTimestamp(now) == now \div TicksPerSecond

\* CommentsHandler.save_new_comment: version is the entry of the version
\* list the comment is posted on; its id and its name go to the store
save_new_comment(cm, f, version, user_name, now, comment_text, oid) ==
    mongo_save_new_comment(cm, f, version.id, version.name, user_name,
                           CommentTimestamp(now), comment_text, oid)

\* CommentsHandler.delete_comment: the result of mongo_delete_comment is
\* dropped
delete_comment(cm, f, version_id, comment_id) ==
    mongo_delete_comment(cm, f, version_id, comment_id).comments

\* CommentsHandler.update_comment_content: the result of
\* mongo_update_comment_content is dropped
update_comment_content(cm, f, version_id, comment_id, new_content) ==
    mongo_update_comment_content(cm, f, version_id, comment_id, new_content).comments

\* CommentsHandler.save_reply: returns what mongo_save_reply returns
save_reply(cm, f, version_id, comment_id, user_name, now, reply_text, oid, fails) ==
    mongo_save_reply(cm, f, version_id, comment_id, user_name,
                     CommentTimestamp(now), reply_text, oid, fails)

\* CommentsHandler.delete_reply: the result of mongo_delete_reply is dropped
delete_reply(cm, f, version_id, reply_id) ==
    mongo_delete_reply(cm, f, version_id, reply_id).comments

\* CommentsHandler.update_resolve_comment: the result of
\* mongo_update_comment_resolved_status is dropped
update_resolve_comment(cm, f, version_id, comment_id, resolved) ==
    mongo_update_comment_resolved_status(cm, f, version_id, comment_id, resolved).comments

(***************************************************************************)
(* Comment controller (comment_controller.py)                              *)
(***************************************************************************)
\* str.lower() on one character of the alphabet of the model
LowerChar(ch) == IF ch = "A" THEN "a" ELSE ch

\* str.lower()
Lower(text) == [i \in 1..Len(text) |-> LowerChar(text[i])]

\* the operator "in" on two strings
IsSubstring(needle, hay) ==
    \E k \in 0..(Len(hay) - Len(needle)) :
        SubSeq(hay, k + 1, k + Len(needle)) = needle

\* _get_filtered_comments comparing the text without lower()
_get_filtered_comments_case_sensitive(ss) ==
    LET filter_criteria == ss.filter_criteria
        resolved_status == filter_criteria.status = "resolved"
        ByStatus(c) == c.resolved = resolved_status
        ByUser(c) == c.user = filter_criteria.user_filter
        ByText(c) == IsSubstring(filter_criteria.search_text, c.content)
        copy == ss.comments
        after_status == IF filter_criteria.status # "all"
                        THEN SelectSeq(copy, ByStatus) ELSE copy
        after_user == IF filter_criteria.user_filter # "all"
                      THEN SelectSeq(after_status, ByUser) ELSE after_status
    IN  IF ss.comments = << >> THEN << >>
        ELSE IF filter_criteria.search_text # << >>
        THEN SelectSeq(after_user, ByText) ELSE after_user

\* CommentController._get_filtered_comments on the session state ss: the
\* three list comprehensions in the order of the code, each skipped for
\* "all" or for an empty search text
_get_filtered_comments(ss) ==
    LET filter_criteria == ss.filter_criteria
        resolved_status == filter_criteria.status = "resolved"
        search_text == Lower(filter_criteria.search_text)
        ByStatus(c) == c.resolved = resolved_status
        ByUser(c) == c.user = filter_criteria.user_filter
        ByText(c) == IsSubstring(search_text, Lower(c.content))
        copy == ss.comments
        after_status == IF filter_criteria.status # "all"
                        THEN SelectSeq(copy, ByStatus) ELSE copy
        after_user == IF filter_criteria.user_filter # "all"
                      THEN SelectSeq(after_status, ByUser) ELSE after_status
    IN  IF ss.comments = << >> THEN << >>
        ELSE IF filter_criteria.search_text # << >>
        THEN SelectSeq(after_user, ByText) ELSE after_user

\* the comment the session holds under an id: a sequence of at most one
\* comment, empty for the None of next(..., None)
SessionComment(ss, comment_id) ==
    LET Same(c) == c.id = comment_id IN SelectSeq(ss.comments, Same)

\* what the session appends for a reply the handler returned None for
NoneReply == [id |-> 0, user |-> "", timestamp |-> 0, content |-> << >>]

\* the page is run again with another version selected:
\* _handle_version_change drops the cached comments and the filters,
\* _load_comments_if_needed fetches the comments of the version
_handle_version_change(cm, ss, f, selected_version) ==
    [comments |-> cm,
     session |-> [ss EXCEPT !.selected_version = selected_version,
                            !.filter_criteria = NoFilter,
                            !.comments = mongo_get_comments_of_version(
                                             cm, f, selected_version.id)],
     calls |-> {}]

\* _handle_and_display_new_comment for a text typed into the chat input
_handle_and_display_new_comment(cm, ss, f, user_name, now, comment_text, oid) ==
    LET st == save_new_comment(cm, f, ss.selected_version, user_name, now,
                               comment_text, oid)
    IN  IF comment_text = << >> THEN [comments |-> cm, session |-> ss, calls |-> {}]
        ELSE [comments |-> st.comments,
              session |-> [ss EXCEPT !.comments = @ \o st.ret],
              calls |-> {"mongo_save_new_comment"}]

\* _handle_comment_deletion leaving the cached list as it is
_handle_comment_deletion_keep_cache(cm, ss, f, comment_id) ==
    [comments |-> delete_comment(cm, f, ss.selected_version.id, comment_id),
     session |-> ss,
     calls |-> {"mongo_delete_comment"}]

\* _confirm_and_delete_comment and, on confirmation, _handle_comment_deletion
_handle_comment_deletion(cm, ss, f, comment_id) ==
    LET Other(c) == c.id # comment_id
    IN  IF SessionComment(ss, comment_id) = << >>
        THEN [comments |-> cm, session |-> ss, calls |-> {}]
        ELSE [comments |-> delete_comment(cm, f, ss.selected_version.id, comment_id),
              session |-> [ss EXCEPT !.comments = SelectSeq(@, Other)],
              calls |-> {"mongo_delete_comment"}]

\* the position of the first cached comment with the id: the comment the
\* loops with break and next() stop at
FirstCached(ss, comment_id) ==
    CHOOSE i \in 1..Len(ss.comments) :
        /\ ss.comments[i].id = comment_id
        /\ \A j \in 1..(i - 1) : ss.comments[j].id # comment_id

\* _handle_comment_resolve
_handle_comment_resolve(cm, ss, f, comment_id, resolved) ==
    [comments |-> update_resolve_comment(cm, f, ss.selected_version.id, comment_id, resolved),
     session |-> IF SessionComment(ss, comment_id) = << >> THEN ss
                 ELSE [ss EXCEPT !.comments[FirstCached(ss, comment_id)].resolved = resolved],
     calls |-> {"mongo_update_comment_resolved_status"}]

\* _handle_comment_edit updating the store whatever the text is
_handle_comment_edit_always(cm, ss, f, comment_id, new_content) ==
    IF SessionComment(ss, comment_id) = << >>
    THEN [comments |-> cm, session |-> ss, calls |-> {}]
    ELSE [comments |-> update_comment_content(cm, f, ss.selected_version.id,
                                              comment_id, new_content),
          session |-> [ss EXCEPT !.comments[FirstCached(ss, comment_id)].content
                                     = new_content],
          calls |-> {"mongo_update_comment_content"}]

\* _handle_comment_edit and the on_edit_callback of its dialog
_handle_comment_edit(cm, ss, f, comment_id, new_content) ==
    IF SessionComment(ss, comment_id) = << >>
    THEN [comments |-> cm, session |-> ss, calls |-> {}]
    ELSE IF new_content # << >>
            /\ new_content # ss.comments[FirstCached(ss, comment_id)].content
    THEN [comments |-> update_comment_content(cm, f, ss.selected_version.id,
                                              comment_id, new_content),
          session |-> [ss EXCEPT !.comments[FirstCached(ss, comment_id)].content
                                     = new_content],
          calls |-> {"mongo_update_comment_content"}]
    ELSE [comments |-> cm, session |-> ss, calls |-> {}]

\* _handle_comment_reply and the on_reply_callback of its dialog: what
\* save_reply returns is appended to the replies of the cached comment, a
\* None included.  fails: the store applies nothing and save_reply returns
\* None
_handle_comment_reply(cm, ss, f, comment_id, user_name, now, reply_text, oid, fails) ==
    LET st == save_reply(cm, f, ss.selected_version.id, comment_id, user_name, now,
                         reply_text, oid, fails)
        new_reply == IF st.ret = << >> THEN NoneReply ELSE st.ret[1]
    IN  IF SessionComment(ss, comment_id) = << >> \/ reply_text = << >>
        THEN [comments |-> cm, session |-> ss, calls |-> {}]
        ELSE [comments |-> st.comments,
              session |-> [ss EXCEPT !.comments[FirstCached(ss, comment_id)].replies
                                         = Append(@, new_reply)],
              calls |-> {"mongo_save_reply"}]

\* the places of the cached replies: comment i, reply j, in the order the
\* loops over the comments and their replies visit them
ReplyPlaces(ss) ==
    UNION { { <<i, j>> : j \in 1..Len(ss.comments[i].replies) } :
              i \in 1..Len(ss.comments) }

VisitedBefore(p, q) == p[1] < q[1] \/ (p[1] = q[1] /\ p[2] < q[2])

\* the places that hold a None: reply["id"] raises TypeError there
NonePlaces(ss) ==
    { p \in ReplyPlaces(ss) : ss.comments[p[1]].replies[p[2]] = NoneReply }

\* the places that hold a reply with the id
PlacesOfReply(ss, reply_id) ==
    { p \in ReplyPlaces(ss) : /\ ss.comments[p[1]].replies[p[2]] # NoneReply
                              /\ ss.comments[p[1]].replies[p[2]].id = reply_id }

\* _confirm_and_delete_reply and, on confirmation, _handle_reply_deletion.
\* The search for the reply stops at the first reply with the id and raises
\* at a None met before it; _handle_reply_deletion deletes from the store
\* and then filters the replies comment by comment, raising at the first
\* comment that holds a None, with the comments before it filtered and
\* st.rerun() not reached
_handle_reply_deletion(cm, ss, f, reply_id) ==
    LET Other(r) == r.id # reply_id
        nones == NonePlaces(ss)
        found == \E p \in PlacesOfReply(ss, reply_id) :
                    \A q \in nones : ~VisitedBefore(q, p)
        first_none == IF nones = {} THEN Len(ss.comments) + 1
                      ELSE CHOOSE i \in { q[1] : q \in nones } :
                               \A q \in nones : i <= q[1]
    IN  IF ~found
        THEN [comments |-> cm, session |-> ss, calls |-> {},
              raised |-> nones # {}]
        ELSE [comments |-> delete_reply(cm, f, ss.selected_version.id, reply_id),
              session |-> [ss EXCEPT !.comments =
                             [i \in 1..Len(@) |->
                                 IF i < first_none
                                 THEN [@[i] EXCEPT !.replies = SelectSeq(@, Other)]
                                 ELSE @[i]]],
              calls |-> {"mongo_delete_reply"},
              raised |-> nones # {}]

(***************************************************************************)
(* Files of the Version Control page (version_control_controller.py).      *)
(* A value that may be None is a sequence of at most one element: << >>    *)
(* is None.  A text is a sequence of characters.                           *)
(***************************************************************************)
\* Python's "value or None" for an optional text: None and "" give None
OrNone(value) == IF value = << >> \/ value[1] = << >> THEN << >> ELSE value

\* the optional text as an f-string prints it: None prints as "None"
FormatTerm(value) == IF value = << >> THEN <<"N", "o", "n", "e">> ELSE value[1]

\* the characters of a file name
NameChars(name) ==
    IF name = "a.txt" THEN <<"a", ".", "t", "x", "t">>
    ELSE IF name = "b.txt" THEN <<"b", ".", "t", "x", "t">>
    ELSE << >>

\* a row of the files table; the modifiedTime of a file is that of its
\* newest revision
FileRow(d, pl, f) == [id |-> f, name |-> d[f].name, parent |-> pl[f].parent,
                      modifiedTime |-> Last(d[f].revisions).modifiedTime]

\* the rows of the files with the ids in found, in the order of the ids:
\* the order in which the provider created the files
FileRows(d, pl, found) ==
    LET ids == Pick([g \in DOMAIN d |-> g], found)
    IN  [i \in 1..Len(ids) |-> FileRow(d, pl, ids[i])]

\* files().list with trashed = false under the project folder and
\* orderBy="modifiedTime desc", then the sort by modifiedTime with
\* reverse=True: the files that exist and are not in the trash, the one
\* modified last first
gds_get_most_recent_files_recursive(d, pl) ==
    SortByRawKeyDesc(FileRows(d, pl, { g \in DOMAIN d : d[g].exists /\ ~pl[g].trashed }))

\* files().list with trashed=false and name contains 'search_term', with
\* no orderBy: the files in the provider's order
gds_get_files(d, pl, search_term) ==
    FileRows(d, pl, { g \in DOMAIN d : /\ d[g].exists
                                      /\ ~pl[g].trashed
                                      /\ IsSubstring(search_term, NameChars(d[g].name)) })

\* what _handle_and_display_files fetches for a search term or None
FetchFiles(d, pl, search_term) ==
    IF search_term = << >> THEN gds_get_most_recent_files_recursive(d, pl)
    ELSE gds_get_files(d, pl, search_term[1])

\* files().delete or files().update(body={"trashed": True}); ok is the
\* boolean returned
gds_delete_file(d, pl, f, delete_permanently, fails) ==
    IF fails \/ ~d[f].exists
    THEN [drive |-> d, place |-> pl, ok |-> FALSE]
    ELSE IF delete_permanently
    THEN [drive |-> [d EXCEPT ![f] = NoFile],
          place |-> [pl EXCEPT ![f] = NoPlace], ok |-> TRUE]
    ELSE [drive |-> d, place |-> [pl EXCEPT ![f].trashed = TRUE], ok |-> TRUE]

\* VersionControlHandler.delete_file
delete_file(d, pl, f, delete_permanently, fails) ==
    gds_delete_file(d, pl, f, delete_permanently, fails)

\* one run of _handle_and_display_files.  ss.Search_files is the text in
\* the search box; rerun tells that the run ended in st.rerun() and the
\* script starts again
_handle_and_display_files(ss, d, pl, refresh_files) ==
    LET search_term == OrNone(ss.search_term_files)
        cache_key == FormatTerm(search_term)
        new_search_term == ss.Search_files
        files_for_display == IF ss.cache[cache_key] = << >>
                             THEN FetchFiles(d, pl, search_term)
                             ELSE ss.cache[cache_key][1]
    IN  IF <<new_search_term>> # ss.search_term_files
        THEN [ss EXCEPT !.search_term_files = <<new_search_term>>,
                        !.cache[cache_key] = << >>,
                        !.rerun = TRUE]
        ELSE IF refresh_files
        THEN [ss EXCEPT !.cache[cache_key] = << >>, !.rerun = TRUE]
        ELSE [ss EXCEPT !.cache[cache_key] = <<files_for_display>>,
                        !.files_for_display = <<files_for_display>>,
                        !.rerun = FALSE]

\* _clear_files_session_state leaving search_term_files as it is
_clear_files_session_state_keep_search(ss) ==
    [ss EXCEPT !.cache[FormatTerm(ss.search_term_files)] = << >>,
               !.files_for_display = << >>,
               !.files_reset_key = @ + 1]

\* _clear_files_session_state: the cache key is built from
\* search_term_files as it stands, without "or None"
_clear_files_session_state(ss) ==
    [ss EXCEPT !.cache[FormatTerm(ss.search_term_files)] = << >>,
               !.files_for_display = << >>,
               !.search_term_files = << >>,
               !.files_reset_key = @ + 1]

RECURSIVE UploadFilesLoop(_, _, _, _, _, _)
\* the loop of _handle_file_upload.on_upload_callback: upload_file with the
\* one description of the dialog and _clear_files_session_state for each
\* file.  fa[i] holds the calls that
\* fail during the upload of the i-th file; the provider creates a file
\* under the first id that is free
UploadFilesLoop(st, selected_folder, files_to_upload, description, fa, i) ==
    IF i > Len(files_to_upload) THEN st
    ELSE LET f == CHOOSE g \in DOMAIN st.drive :
                     /\ ~st.drive[g].exists
                     /\ \A h \in DOMAIN st.drive : h < g => st.drive[h].exists
             r == upload_file(st.drive, st.revdocs, f, files_to_upload[i],
                              description, st.clock, st.nextRev, fa[i])
         IN  UploadFilesLoop(
                 [drive |-> r.drive, revdocs |-> r.revdocs,
                  place |-> IF r.created
                            THEN [st.place EXCEPT ![f] = [parent |-> selected_folder,
                                                          trashed |-> FALSE]]
                            ELSE st.place,
                  clock |-> IF r.created THEN st.clock + 1 ELSE st.clock,
                  nextRev |-> IF r.created THEN st.nextRev + 1 ELSE st.nextRev,
                  session |-> _clear_files_session_state(st.session)],
                 selected_folder, files_to_upload, description, fa, i + 1)

\* _handle_file_deletion.on_delete_callback for one file: delete_file and
\* _clear_files_session_state
on_delete_file_callback(st, selected_file, delete_permanently, fails) ==
    LET r == delete_file(st.drive, st.place, selected_file.id, delete_permanently, fails)
    IN  [drive |-> r.drive, place |-> r.place,
         session |-> _clear_files_session_state(st.session)]

RECURSIVE DeleteFilesLoop(_, _, _, _, _)
\* display_delete_file_dialog: for file in selected_files:
\* on_delete_callback(file, delete_permanently)
DeleteFilesLoop(st, selected_files, delete_permanently, fa, i) ==
    IF i > Len(selected_files) THEN st
    ELSE DeleteFilesLoop(on_delete_file_callback(st, selected_files[i],
                                                 delete_permanently, fa[i] # {}),
                         selected_files, delete_permanently, fa, i + 1)

(***************************************************************************)
(* The state machine                                                       *)
(***************************************************************************)
NoOp == [op |-> "none", ok |-> FALSE, raised |-> FALSE, file |-> 0, target |-> 0,
         num |-> 0, name |-> "", desc |-> << >>, up |-> "", keepForever |-> FALSE,
         keepOnlyLatest |-> FALSE, faults |-> {}, failIds |-> {}, calls |-> {},
         created |-> FALSE, pulled |-> 0]

ExistingFiles == { f \in FileIds : drive[f].exists }

\* number of MongoDB entries stored for a revision id
EntryCount(m, f, vid) ==
    Cardinality({ i \in 1..Len(m[f].versions) : m[f].versions[i].id = vid })

\* the names in the rows of the files table the session has cached
\* (files_for_display): the name each file had when the table was fetched,
\* "" for a file the table does not list.  st.session_state.selected_file
\* is a row of this table
FetchedFileNames(d) == [f \in FileIds |-> IF d[f].exists THEN d[f].name ELSE ""]

\* in this specification session is the cached files table
Init ==
    /\ drive = [f \in FileIds |-> NoFile]
    /\ revdocs = [f \in FileIds |-> NoDoc]
    /\ clock = 0
    /\ nextRev = 1
    /\ deleted = {}
    /\ failures = 0
    /\ shown = << >>
    /\ lastOp = NoOp
    /\ place = [f \in FileIds |-> NoPlace]
    /\ comments = [f \in FileIds |-> NoComments]
    /\ session = FetchedFileNames(drive)

\* the upload dialog of a new file; its callback ends with
\* _clear_files_session_state, so the rerun fetches the files table
UploadFile ==
    /\ nextRev <= MaxRevs
    /\ \E f \in FileIds, up \in Requests, F \in FaultSets(UploadFileFaults, MaxFaults - failures) :
        /\ ~drive[f].exists
        /\ \A g \in FileIds : g < f => drive[g].exists
        /\ failures' = failures + Cardinality(F)
        /\ LET r == upload_file(drive, revdocs, f, up, up.description,
                                clock, nextRev, F)
           IN  /\ drive' = r.drive
               /\ revdocs' = r.revdocs
               /\ clock' = IF r.created THEN clock + 1 ELSE clock
               /\ nextRev' = IF r.created THEN nextRev + 1 ELSE nextRev
               /\ lastOp' = [NoOp EXCEPT !.op = "upload_file", !.ok = r.ok,
                                !.raised = r.raised, !.file = f, !.desc = up.description,
                                !.up = up.name, !.faults = F, !.calls = r.calls,
                                !.created = r.created]
               /\ session' = FetchedFileNames(r.drive)
    /\ UNCHANGED <<deleted, shown, place, comments>>

\* the upload dialog of a new version for the selected file, a row of the
\* cached files table; its callback clears the cached versions only
UploadVersion ==
    /\ nextRev <= MaxRevs
    /\ \E f \in { g \in FileIds : session[g] # "" }, up \in Requests,
          keep_forever \in BOOLEAN, keep_only_latest_version \in BOOLEAN :
       \E F \in FaultSets(UploadVersionFaults(keep_forever, keep_only_latest_version),
                         MaxFaults - failures),
          failIds \in SUBSET (IF keep_only_latest_version
                              THEN Ids(drive[f].revisions) ELSE {}) :
        /\ Len(revdocs[f].versions) < MaxEntries
        /\ failures + Cardinality(F) + Cardinality(failIds) <= MaxFaults
        /\ failures' = failures + Cardinality(F) + Cardinality(failIds)
        /\ LET r == upload_version(drive, revdocs, f, session[f], up, up.description,
                                   keep_forever, keep_only_latest_version,
                                   clock, nextRev, F, failIds)
           IN  /\ drive' = r.drive
               /\ revdocs' = r.revdocs
               /\ clock' = IF r.created THEN clock + 1 ELSE clock
               /\ nextRev' = IF r.created THEN nextRev + 1 ELSE nextRev
               /\ lastOp' = [NoOp EXCEPT !.op = "upload_version", !.ok = r.ok,
                                !.raised = r.raised, !.file = f, !.desc = up.description,
                                !.up = up.name, !.keepForever = keep_forever,
                                !.keepOnlyLatest = keep_only_latest_version,
                                !.faults = F, !.failIds = failIds, !.calls = r.calls,
                                !.created = r.created]
    /\ UNCHANGED <<deleted, shown, place, comments, session>>

\* the revert dialog for the selected file and the selected version; with
\* an empty description the dialog warns and returns without calling the
\* handler
RevertToVersion ==
    /\ nextRev <= MaxRevs
    /\ \E f \in { g \in FileIds : session[g] # "" }, description \in RevertDescriptions,
          F \in FaultSets(RevertVersionFaults, MaxFaults - failures) :
       \E version_to_revert \in Range(get_versions_of_file_for_display(drive, revdocs, f, FALSE)) :
        /\ Len(revdocs[f].versions) < MaxEntries
        /\ IF description = << >>
           THEN UNCHANGED <<drive, revdocs, clock, nextRev, failures, lastOp>>
           ELSE /\ failures' = failures + Cardinality(F)
                /\ LET r == revert_version(drive, revdocs, f, session[f], version_to_revert,
                                           description, clock, nextRev, F)
                   IN  /\ drive' = r.drive
                       /\ revdocs' = r.revdocs
                       /\ clock' = IF r.created THEN clock + 1 ELSE clock
                       /\ nextRev' = IF r.created THEN nextRev + 1 ELSE nextRev
                       /\ lastOp' = [NoOp EXCEPT !.op = "revert_version", !.ok = r.ok,
                                        !.raised = r.raised, !.file = f,
                                        !.target = version_to_revert.id,
                                        !.num = version_to_revert.versionNumber,
                                        !.name = version_to_revert.originalFilename,
                                        !.desc = description, !.faults = F,
                                        !.calls = r.calls, !.created = r.created]
    /\ UNCHANGED <<deleted, shown, place, comments, session>>

DeleteVersion ==
    /\ \E f \in ExistingFiles, version_id \in 1..(nextRev - 1),
          F \in FaultSets(DeleteVersionFaults, MaxFaults - failures) :
           LET r == delete_version(drive, revdocs, f, version_id, F)
           IN  /\ failures' = failures + Cardinality(F)
               /\ drive' = r.drive
               /\ revdocs' = r.revdocs
               /\ deleted' = IF r.ok THEN deleted \cup {<<f, version_id>>} ELSE deleted
               /\ lastOp' = [NoOp EXCEPT !.op = "delete_version", !.ok = r.ok,
                                !.raised = r.raised, !.file = f, !.target = version_id,
                                !.faults = F, !.calls = r.calls,
                                !.pulled = IF r.ok THEN EntryCount(revdocs, f, version_id)
                                           ELSE 0]
    /\ UNCHANGED <<clock, nextRev, shown, place, comments, session>>

\* "Refresh files": the cached files table is dropped and fetched again
RefreshFiles ==
    /\ ExistingFiles # {}
    /\ session' = FetchedFileNames(drive)
    /\ lastOp' = [NoOp EXCEPT !.op = "refresh_files", !.ok = TRUE]
    /\ UNCHANGED <<drive, revdocs, clock, nextRev, deleted, failures, shown,
                   place, comments>>

Next ==
    \/ UploadFile
    \/ UploadVersion
    \/ RevertToVersion
    \/ DeleteVersion
    \/ RefreshFiles

Spec == Init /\ [][Next]_vars

(***************************************************************************)
(* The listing on its own: any revision list the provider may send,        *)
(* timestamps the formatter cannot parse included                          *)
(***************************************************************************)
ListTimes == {BadTime, EmptyTime} \cup { RawTime(t) : t \in 0..MaxListTime }

\* revision lists of length n with ids 1..n in the provider's order
ListInputs(n) ==
    { [i \in 1..n |-> [id |-> i, originalFilename |-> "a.txt",
                       modifiedTime |-> ts[i], keepForever |-> FALSE,
                       bytes |-> "A"]] : ts \in [1..n -> ListTimes] }

InitList ==
    /\ \E n \in 1..MaxListLen : \E revisions \in ListInputs(n) :
          drive = [f \in FileIds |->
                     IF f = 1 THEN [exists |-> TRUE, name |-> "a.txt",
                                    revisions |-> revisions]
                     ELSE NoFile]
    /\ \E described \in {{}, {1}} :
          revdocs = [f \in FileIds |->
                       IF f = 1 /\ described # {}
                       THEN [exists |-> TRUE, description |-> <<"d1">>,
                             versions |-> << [id |-> 1, name |-> "a.txt",
                                              description |-> <<"d1">>] >>]
                       ELSE NoDoc]
    /\ clock = 0
    /\ nextRev = MaxListLen + 1
    /\ deleted = {}
    /\ failures = 0
    /\ shown = << >>
    /\ lastOp = NoOp
    /\ place = [f \in FileIds |-> NoPlace]
    /\ comments = [f \in FileIds |-> NoComments]
    /\ session = NoSession

\* VersionControlController._handle_and_display_versions for the selected
\* file: cache is what the session holds under the cache key of the file
\* (<< >> when the key is absent, else the listing in a sequence of one).
\* "Refresh versions" deletes the key; the listing is computed when the key
\* is absent, and cached
_handle_and_display_versions(cache, d, m, selected_file_id, refresh_versions, fails) ==
    LET kept == IF refresh_versions THEN << >> ELSE cache
    IN  IF kept # << >> THEN kept[1]
        ELSE get_versions_of_file_for_display(d, m, selected_file_id, fails)

\* a run of the Versions page with file f selected; shown is the cached
\* listing of the file the page showed last, an empty one included.  The
\* provider's listing call may fail in a run that computes the listing;
\* lastOp.faults tells whether it failed when the listing shown was computed
ListVersions ==
    /\ \E f \in ExistingFiles, refresh_versions \in BOOLEAN, fails \in BOOLEAN :
          LET cache == IF lastOp.op = "list_versions" /\ lastOp.file = f
                       THEN <<shown>> ELSE << >>
              computed == refresh_versions \/ cache = << >>
          IN  /\ fails => computed
              /\ shown' = _handle_and_display_versions(cache, drive, revdocs, f,
                                                       refresh_versions, fails)
              /\ lastOp' = [NoOp EXCEPT !.op = "list_versions", !.ok = TRUE, !.file = f,
                                !.faults = IF ~computed THEN lastOp.faults
                                           ELSE IF fails THEN {"list"} ELSE {}]
    /\ UNCHANGED <<drive, revdocs, clock, nextRev, deleted, failures, place, comments, session>>

NextList == ListVersions

SpecList == InitList /\ [][NextList]_vars

TypeOK ==
    /\ nextRev \in Nat
    /\ failures \in 0..MaxFaults
    /\ \A f \in FileIds : Ids(drive[f].revisions) \subseteq 1..(nextRev - 1)

(***************************************************************************)
(* The purge on its own: any revision list, any set of deletions that fail *)
(***************************************************************************)
\* gds_delete_old_versions as upload_version calls it for
\* keep_only_latest_version, once on each revision list
PurgeOldVersions ==
    /\ lastOp.op = "none"
    /\ \E f \in ExistingFiles, listFails \in BOOLEAN :
       \E failIds \in SUBSET Ids(drive[f].revisions) :
        /\ drive' = gds_delete_old_versions(drive, f, listFails, failIds)
        /\ lastOp' = [NoOp EXCEPT !.op = "gds_delete_old_versions", !.file = f,
                         !.faults = IF listFails THEN {"purge_list"} ELSE {},
                         !.failIds = failIds]
    /\ UNCHANGED <<revdocs, clock, nextRev, deleted, failures, shown,
                   place, comments, session>>

NextPurge == PurgeOldVersions

SpecPurge == InitList /\ [][NextPurge]_vars

(***************************************************************************)
(* File operations and batch callbacks on their own: a project folder with *)
(* uploaded files, some of them in the trash, and one operation on it      *)
(***************************************************************************)
OpsFileIds == 1..MaxOpsFiles
Folders == 1..MaxFolders
FileNames == { up.name : up \in Requests }

\* what the last operation of the Versions page did: the items selected, the
\* calls that failed for each, the items the handler was called for, what
\* each call returned, and the feedback messages displayed
NoBatch == [op |-> "none", ok |-> FALSE, message |-> << >>, items |-> << >>,
            faults |-> << >>, attempted |-> << >>, results |-> << >>,
            returns |-> << >>, feedback |-> << >>, raised |-> FALSE]

\* the place of file f in the order the files were last modified in, when
\* file first is the one modified first
OpsRank(f, first) == ((f - first + MaxOpsFiles) % MaxOpsFiles) + 1

\* the revisions upload_file and upload_version have stored for file f when
\* it has n of them and is the rank-th file in the order of modification
OpsRevisions(f, n, rank) ==
    [i \in 1..n |-> [id |-> (f - 1) * MaxOpsRevs + i,
                     originalFilename |-> "a.txt",
                     modifiedTime |-> RawTime((rank - 1) * MaxOpsRevs + i),
                     keepForever |-> FALSE, bytes |-> "A"]]

\* and the entries mongo_save_version has stored for them
OpsEntries(f, n) ==
    [i \in 1..n |-> [id |-> (f - 1) * MaxOpsRevs + i, name |-> "a.txt",
                     description |-> <<"d1">>]]

InitOps ==
    /\ \E n \in [OpsFileIds -> 1..MaxOpsRevs], trashed \in [OpsFileIds -> BOOLEAN],
          first \in OpsFileIds :
        /\ drive = [f \in OpsFileIds |->
                      [exists |-> TRUE, name |-> "a.txt",
                       revisions |-> OpsRevisions(f, n[f], OpsRank(f, first))]]
        /\ revdocs = [f \in OpsFileIds |->
                        [exists |-> TRUE, description |-> <<"d1">>,
                         versions |-> OpsEntries(f, n[f])]]
        /\ place = [f \in OpsFileIds |-> [parent |-> 1, trashed |-> trashed[f]]]
    /\ clock = MaxOpsFiles * MaxOpsRevs + 1
    /\ nextRev = MaxOpsFiles * MaxOpsRevs + 1
    /\ deleted = {}
    /\ failures = 0
    /\ shown = << >>
    /\ lastOp = NoBatch
    /\ comments = [f \in OpsFileIds |-> NoComments]
    /\ session = NoSession

\* the non-empty selections of the rows of s
Selections(s) == { Pick(s, I) : I \in (SUBSET (1..Len(s))) \ {{}} }

\* for each of n items the call that fails for it, if any; at most
\* MaxFaults calls fail
FaultAssignments(n, points) ==
    { fa \in [1..n -> {{}} \cup { {p} : p \in points }] :
        Cardinality({ i \in 1..n : fa[i] # {} }) <= MaxFaults }

\* the ids of the files of the project folder in the order of the table
\* (gds_get_most_recent_files_recursive: orderBy="modifiedTime desc" and the
\* sort by the raw modifiedTime, reverse=True): the file modified last comes
\* first.  The modifiedTime of a file is that of its newest revision
OpsFileList(d, pl) ==
    LET found == Pick([f \in 1..MaxOpsFiles |-> f],
                      { f \in OpsFileIds : ~pl[f].trashed })
        rows == [i \in 1..Len(found) |->
                    [id |-> found[i],
                     modifiedTime |-> Last(d[found[i]].revisions).modifiedTime]]
        sorted == SortByRawKeyDesc(rows)
    IN  [i \in 1..Len(sorted) |-> sorted[i].id]

\* the key x["modifiedTime"] of the sort of _handle_file_restore: the string
\* format_files_for_display has put there, the local wall clock to the
\* second or "N/A".  Two dates compare as their wall-clock seconds do, and
\* "N/A" is greater than every date
FormattedKeyGreater(a, b) ==
    IF a.modifiedTime.valid /\ b.modifiedTime.valid
    THEN a.modifiedTime.sec > b.modifiedTime.sec
    ELSE ~a.modifiedTime.valid /\ b.modifiedTime.valid

RECURSIVE InsertByFormattedKeyDesc(_, _)
\* list.sort(reverse=True) keeps the order of elements with equal keys
InsertByFormattedKeyDesc(s, x) ==
    IF s = << >> THEN <<x>>
    ELSE IF FormattedKeyGreater(x, Last(s))
         THEN Append(InsertByFormattedKeyDesc(Front(s), x), Last(s))
         ELSE Append(s, x)

RECURSIVE SortByFormattedKeyDesc(_)
\* trashed_files_with_folder.sort(key=lambda x: x["modifiedTime"], reverse=True)
SortByFormattedKeyDesc(s) ==
    IF s = << >> THEN << >>
    ELSE InsertByFormattedKeyDesc(SortByFormattedKeyDesc(Front(s)), Last(s))

\* the ids of the files the Restore dialog offers, in its order:
\* gds_get_trashed_files returns the files of the trash in the provider's
\* order (no orderBy), format_files_for_display formats their modifiedTime,
\* and _handle_file_restore sorts the formatted rows, newest string first
OpsTrashList(d, pl) ==
    LET found == Pick([f \in 1..MaxOpsFiles |-> f],
                      { f \in OpsFileIds : pl[f].trashed })
        rows == [i \in 1..Len(found) |->
                    [id |-> found[i],
                     modifiedTime |->
                        format_date(Last(d[found[i]].revisions).modifiedTime)]]
        sorted == SortByFormattedKeyDesc(rows)
    IN  [i \in 1..Len(sorted) |-> sorted[i].id]

\* the ids of the versions of file f in the order of the versions table
\* (the cached result of get_versions_of_file_for_display), which is the
\* order of the options of the multiselect
OpsVersionList(d, m, f) ==
    LET versions_for_display == get_versions_of_file_for_display(d, m, f, FALSE)
    IN  [i \in 1..Len(versions_for_display) |-> versions_for_display[i].id]

\* ok and message are those of the last message displayed
BatchOp(name, items, fa, st) ==
    [NoBatch EXCEPT !.op = name,
                    !.ok = IF st.feedback = << >> THEN FALSE
                           ELSE Last(st.feedback).success,
                    !.message = IF st.feedback = << >> THEN << >>
                                ELSE Last(st.feedback).message,
                    !.items = items,
                    !.faults = fa, !.attempted = st.attempted,
                    !.results = st.results, !.returns = st.returns,
                    !.feedback = st.feedback,
                    !.raised = st.raised]

\* the Rename dialog for the one file selected:
\* on_rename_callback({file["id"]: name})
RenameFile ==
    /\ lastOp.op = "none"
    /\ \E f \in Range(OpsFileList(drive, place)), new_name \in FileNames,
          fa \in FaultAssignments(1, {"rename"}) :
         LET new_names == << [id |-> f, name |-> new_name] >>
             st == on_rename_callback(drive, revdocs, place, new_names, fa)
         IN  /\ drive' = st.drive
             /\ lastOp' = BatchOp("rename_file", new_names, fa, st)
    /\ UNCHANGED <<revdocs, clock, nextRev, deleted, failures, shown,
                   place, comments, session>>

\* the Move dialog for the file selected in the table when no file is
\* ticked for a batch: on_move_callback([selected_file], selected_folder)
MoveFile ==
    /\ lastOp.op = "none"
    /\ \E f \in Range(OpsFileList(drive, place)), selected_folder \in Folders,
          fa \in FaultAssignments(1, {"move"}) :
         LET selected_files == << [id |-> f, folder_id |-> place[f].parent] >>
             st == on_move_callback(drive, revdocs, place, selected_files,
                                    selected_folder, fa)
         IN  /\ place' = st.place
             /\ lastOp' = BatchOp("move_file",
                                  << [id |-> f, folder |-> selected_folder] >>, fa, st)
    /\ UNCHANGED <<drive, revdocs, clock, nextRev, deleted, failures, shown,
                   comments, session>>

\* "Apply" in the Keep Forever dialog for the versions ticked, or for the
\* one version selected in the table
ToggleKeepForever ==
    /\ lastOp.op = "none"
    /\ \E f \in Range(OpsFileList(drive, place)), keep_forever \in BOOLEAN :
       \E selected_versions \in Selections(OpsVersionList(drive, revdocs, f)) :
       \E fa \in FaultAssignments(Len(selected_versions), {"pin"}) :
         LET st == on_toggle_callback(drive, revdocs, place, f, selected_versions,
                                      keep_forever, fa)
         IN  /\ drive' = st.drive
             /\ lastOp' = BatchOp("update_version_keep_forever",
                                  [i \in 1..Len(selected_versions) |->
                                      [id |-> f, version |-> selected_versions[i],
                                       keep_forever |-> keep_forever]],
                                  fa, st)
    /\ UNCHANGED <<revdocs, clock, nextRev, deleted, failures, shown,
                   place, comments, session>>

\* "Delete forever" in the delete-versions dialog for the versions ticked,
\* or for the one version selected in the table
BatchDeleteVersions ==
    /\ lastOp.op = "none"
    /\ \E f \in Range(OpsFileList(drive, place)) :
       \E selected_versions \in Selections(OpsVersionList(drive, revdocs, f)) :
       \E fa \in FaultAssignments(Len(selected_versions), DeleteVersionFaults),
          in_try \in BOOLEAN :
         LET st == _handle_version_deletion(drive, revdocs, place, f,
                                            selected_versions, fa, in_try)
         IN  /\ drive' = st.drive
             /\ revdocs' = st.revdocs
             /\ lastOp' = BatchOp("batch_delete_versions", selected_versions, fa, st)
    /\ UNCHANGED <<clock, nextRev, deleted, failures, shown, place, comments, session>>

\* "Move" in the move dialog for the files ticked
BatchMoveFiles ==
    /\ lastOp.op = "none"
    /\ \E ids \in Selections(OpsFileList(drive, place)), selected_folder \in Folders :
       \E fa \in FaultAssignments(Len(ids), {"move"}) :
         LET selected_files == [i \in 1..Len(ids) |->
                                  [id |-> ids[i], folder_id |-> place[ids[i]].parent]]
             st == on_move_callback(drive, revdocs, place, selected_files,
                                    selected_folder, fa)
         IN  /\ place' = st.place
             /\ lastOp' = BatchOp("batch_move_files", ids, fa, st)
    /\ UNCHANGED <<drive, revdocs, clock, nextRev, deleted, failures, shown,
                   comments, session>>

\* "Rename" in the dialog for several files, which opens when more than
\* one file is ticked
BatchRenameFiles ==
    /\ lastOp.op = "none"
    /\ \E ids \in Selections(OpsFileList(drive, place)) :
       \E names \in [1..Len(ids) -> FileNames],
          fa \in FaultAssignments(Len(ids), {"rename"}) :
         LET new_names == [i \in 1..Len(ids) |-> [id |-> ids[i], name |-> names[i]]]
             st == on_rename_callback(drive, revdocs, place, new_names, fa)
         IN  /\ Len(ids) > 1
             /\ drive' = st.drive
             /\ lastOp' = BatchOp("batch_rename_files", ids, fa, st)
    /\ UNCHANGED <<revdocs, clock, nextRev, deleted, failures, shown,
                   place, comments, session>>

\* "Restore" in the trash dialog
BatchRestoreFiles ==
    /\ lastOp.op = "none"
    /\ \E selected_files \in Selections(OpsTrashList(drive, place)) :
       \E fa \in FaultAssignments(Len(selected_files), {"restore"}) :
         LET st == on_restore_callback(drive, revdocs, place, selected_files, fa)
         IN  /\ place' = st.place
             /\ lastOp' = BatchOp("batch_restore_files", selected_files, fa, st)
    /\ UNCHANGED <<drive, revdocs, clock, nextRev, deleted, failures, shown,
                   comments, session>>

NextOps ==
    \/ RenameFile
    \/ MoveFile
    \/ ToggleKeepForever
    \/ BatchDeleteVersions
    \/ BatchMoveFiles
    \/ BatchRenameFiles
    \/ BatchRestoreFiles

SpecOps == InitOps /\ [][NextOps]_vars

(***************************************************************************)
(* Comments: the operations of the comments handler on the collection      *)
(***************************************************************************)
\* the comments panel works on the file selected in the session
\* (st.session_state.selected_file) and on one of its versions; every call
\* of the handler passes that file
SelectedFile == 1
CommentVersions == 1..MaxCommentVersions

\* st.session_state.selected_version is None
NoVersion == [id |-> 0, name |-> << >>]

\* the entry of the version selectbox for a revision of the selected file:
\* get_sorted_versions_of_a_file gives the newest revision, the one with
\* the greatest id here, the name with the suffix
VersionEntry(v) ==
    [id |-> v,
     name |-> <<"a.txt">> \o (IF v = MaxCommentVersions
                              THEN <<" (current version)">> ELSE << >>)]
ObjectIds == 1..MaxObjectIds

\* the ids of the comments and of the replies stored for a file: what the
\* comments panel shows with a Resolve or a Delete button
DocCommentIds(doc) ==
    UNION {{c.id : c \in Range(v.comments)} : v \in Range(doc.versions)}

DocReplyIds(doc) ==
    UNION {UNION {{r.id : r \in Range(c.replies)} : c \in Range(v.comments)} :
              v \in Range(doc.versions)}

\* the texts of the edit dialog
EditTexts == {<<"c">>, <<"e">>}

NoCommentOp == [op |-> "none", file |-> 0, version |-> 0, target |-> 0,
                resolved |-> FALSE, repeat |-> FALSE, ret |-> << >>,
                modified |-> FALSE, content |-> << >>]

InitComments ==
    /\ drive = [f \in FileIds |-> NoFile]
    /\ revdocs = [f \in FileIds |-> NoDoc]
    /\ place = [f \in FileIds |-> NoPlace]
    /\ comments = [f \in FileIds |-> NoComments]
    /\ clock = 0
    /\ nextRev = 1
    /\ deleted = {}
    /\ failures = 0
    /\ shown = << >>
    /\ lastOp = NoCommentOp
    /\ session = NoSession

\* a comment is posted on a version of a file; nextRev is the ObjectId
SaveNewComment ==
    /\ nextRev <= MaxObjectIds
    /\ \E f \in {SelectedFile}, v \in CommentVersions :
         LET st == save_new_comment(comments, f, VersionEntry(v), "u1", clock,
                                    <<"c">>, nextRev)
         IN  /\ comments' = st.comments
             /\ lastOp' = [NoCommentOp EXCEPT !.op = "save_new_comment",
                               !.file = f, !.version = v, !.ret = st.ret]
    /\ clock' = clock + 1
    /\ nextRev' = nextRev + 1
    /\ UNCHANGED <<drive, revdocs, deleted, failures, shown, place, session>>

\* a reply is posted to any comment id, one of the scope or not
SaveReply ==
    /\ nextRev <= MaxObjectIds
    /\ \E f \in {SelectedFile}, v \in CommentVersions, comment_id \in ObjectIds :
       \E fails \in BOOLEAN :
         LET st == save_reply(comments, f, v, comment_id, "u1", clock, <<"r">>,
                              nextRev, fails)
         IN  /\ comments' = st.comments
             /\ lastOp' = [NoCommentOp EXCEPT !.op = "save_reply",
                               !.file = f, !.version = v, !.target = comment_id,
                               !.ret = st.ret]
    /\ clock' = clock + 1
    /\ nextRev' = nextRev + 1
    /\ UNCHANGED <<drive, revdocs, deleted, failures, shown, place, session>>

\* a reply of the file is deleted in a scope; modified records what
\* mongo_delete_reply returned to the handler
DeleteReply ==
    /\ \E f \in {SelectedFile}, v \in CommentVersions :
       \E reply_id \in DocReplyIds(comments[f]) :
         /\ comments' = delete_reply(comments, f, v, reply_id)
         /\ lastOp' = [NoCommentOp EXCEPT !.op = "delete_reply",
                           !.file = f, !.version = v, !.target = reply_id,
                           !.modified = mongo_delete_reply(comments, f, v, reply_id).ok]
    /\ UNCHANGED <<drive, revdocs, clock, nextRev, deleted, failures, shown,
                   place, session>>

\* a comment of the file is marked in a scope; repeat records that the
\* call before this one was the same call
UpdateResolveComment ==
    /\ \E f \in {SelectedFile}, v \in CommentVersions, resolved \in BOOLEAN :
       \E comment_id \in DocCommentIds(comments[f]) :
         /\ comments' = update_resolve_comment(comments, f, v, comment_id, resolved)
         /\ lastOp' = [NoCommentOp EXCEPT !.op = "update_resolve_comment",
                           !.file = f, !.version = v, !.target = comment_id,
                           !.resolved = resolved,
                           !.modified = mongo_update_comment_resolved_status(
                                            comments, f, v, comment_id, resolved).ok,
                           !.repeat = /\ lastOp.op = "update_resolve_comment"
                                      /\ lastOp.file = f
                                      /\ lastOp.version = v
                                      /\ lastOp.target = comment_id
                                      /\ lastOp.resolved = resolved]
    /\ UNCHANGED <<drive, revdocs, clock, nextRev, deleted, failures, shown,
                   place, session>>

NextComments ==
    \/ SaveNewComment
    \/ SaveReply
    \/ DeleteReply
    \/ UpdateResolveComment

SpecComments == InitComments /\ [][NextComments]_vars

(***************************************************************************)
(* Comment filters: the filters applied to the comments of the session     *)
(***************************************************************************)
Users == {"u1", "u2"}
Chars == {"a", "A", "b"}
CommentTexts == {<<"A", "b">>, <<"b", "a">>, <<"a">>}
StatusOptions == {"all", "resolved", "unresolved"}

\* the texts of the search field
SearchTexts == UNION {[1..n -> Chars] : n \in 0..MaxSearchLen}

\* the comments a fetch can return: comment i has id i and one reply
FetchedComments ==
    UNION {[1..n -> [user : Users, resolved : BOOLEAN, content : CommentTexts]] :
              n \in 1..MaxComments}

SessionComments(picked) ==
    [i \in 1..Len(picked) |->
        [id |-> i, user |-> picked[i].user, timestamp |-> 0,
         content |-> picked[i].content, resolved |-> picked[i].resolved,
         replies |-> <<[id |-> MaxComments + i, user |-> "u1", timestamp |-> 0,
                        content |-> <<"b", "b">>]>>]]

InitFilter ==
    /\ drive = [f \in FileIds |-> NoFile]
    /\ revdocs = [f \in FileIds |-> NoDoc]
    /\ place = [f \in FileIds |-> NoPlace]
    /\ comments = [f \in FileIds |-> NoComments]
    /\ clock = 0
    /\ nextRev = 1
    /\ deleted = {}
    /\ failures = 0
    /\ shown = << >>
    /\ lastOp = [op |-> "none"]
    /\ \E picked \in FetchedComments :
         session = [comments |-> SessionComments(picked),
                    filter_criteria |-> NoFilter]

\* Apply Filters (or Clear Filters, which gives the default criteria): the
\* criteria are stored in the session and the rerun shows the filtered
\* comments
ApplyFilters ==
    /\ lastOp.op = "none"
    /\ session.comments # << >>
    /\ \E status \in StatusOptions, user_filter \in {"all"} \cup Users,
          search_text \in SearchTexts :
         /\ session' = [session EXCEPT !.filter_criteria =
                           [status |-> status, search_text |-> search_text,
                            user_filter |-> user_filter]]
         /\ shown' = _get_filtered_comments(session')
    /\ lastOp' = [op |-> "apply_filters"]
    /\ UNCHANGED <<drive, revdocs, clock, nextRev, deleted, failures, place,
                   comments>>

NextFilter == ApplyFilters

SpecFilter == InitFilter /\ [][NextFilter]_vars

(***************************************************************************)
(* Version metadata on its own: files with their revisions, any sequence   *)
(* of saved entries, and the listing                                       *)
(***************************************************************************)
\* the revision ids metadata is saved for: those of the revisions of a
\* file and one id no revision has
MetaVersionIds == 1..(MaxRevs + 1)
MetaDescriptions == {<<"d1">>, <<"d2">>}

MetaRevisions ==
    [i \in 1..MaxRevs |-> [id |-> i, originalFilename |-> "a.txt",
                           modifiedTime |-> RawTime(i), keepForever |-> FALSE,
                           bytes |-> "A"]]

\* number of entries stored in the collection
TotalEntries(m) ==
    LET RECURSIVE Sum(_)
        Sum(n) == IF n = 0 THEN 0 ELSE Len(m[n].versions) + Sum(n - 1)
    IN  Sum(MaxFiles)

InitMeta ==
    /\ drive = [f \in FileIds |-> [exists |-> TRUE, name |-> "a.txt",
                                   revisions |-> MetaRevisions]]
    /\ revdocs = [f \in FileIds |-> NoDoc]
    /\ clock = MaxRevs + 1
    /\ nextRev = MaxRevs + 2
    /\ deleted = {}
    /\ failures = 0
    /\ shown = << >>
    /\ lastOp = NoOp
    /\ place = [f \in FileIds |-> NoPlace]
    /\ comments = [f \in FileIds |-> NoComments]
    /\ session = NoSession

\* mongo_save_version as the upload and revert handlers call it; the
\* callbacks of the dialogs clear the cached listing afterwards
SaveVersionMetadata ==
    /\ TotalEntries(revdocs) < MaxEntries
    /\ \E f \in FileIds, version_id \in MetaVersionIds, description \in MetaDescriptions :
         /\ revdocs' = mongo_save_version(revdocs, f, version_id, "a.txt", description)
         /\ lastOp' = [NoOp EXCEPT !.op = "mongo_save_version", !.file = f,
                           !.target = version_id, !.desc = description]
    /\ shown' = << >>
    /\ UNCHANGED <<drive, clock, nextRev, deleted, failures, place, comments, session>>

NextMeta ==
    \/ SaveVersionMetadata
    \/ ListVersions

SpecMeta == InitMeta /\ [][NextMeta]_vars

(***************************************************************************)
(* The Comments page: one session working on the versions of the selected  *)
(* file, with the comments of the selected version cached in the session   *)
(***************************************************************************)
PageSession == [comments |-> << >>, filter_criteria |-> NoFilter,
                selected_version |-> NoVersion]

InitPage ==
    /\ drive = [f \in FileIds |-> NoFile]
    /\ revdocs = [f \in FileIds |-> NoDoc]
    /\ place = [f \in FileIds |-> NoPlace]
    /\ comments = [f \in FileIds |-> NoComments]
    /\ clock = 0
    /\ nextRev = 1
    /\ deleted = {}
    /\ failures = 0
    /\ shown = << >>
    /\ lastOp = [NoCommentOp EXCEPT !.ret = {}]
    /\ session = PageSession

\* the ids of the comments and of the replies the panel shows
CachedCommentIds == { session.comments[i].id : i \in 1..Len(session.comments) }
CachedReplyIds ==
    UNION { { r.id : r \in Range(session.comments[i].replies) \ {NoneReply} } :
              i \in 1..Len(session.comments) }

\* what an action of the page leaves behind; ret holds the store updates issued
PageOp(name, target, st) ==
    [NoCommentOp EXCEPT !.op = name, !.file = SelectedFile,
                        !.version = st.session.selected_version.id,
                        !.target = target, !.ret = st.calls]

SelectVersion ==
    /\ \E v \in CommentVersions :
         /\ v # session.selected_version.id
         /\ LET st == _handle_version_change(comments, session, SelectedFile,
                                             VersionEntry(v))
            IN  /\ session' = st.session
                /\ lastOp' = PageOp("select_version", 0, st)
    /\ UNCHANGED <<drive, revdocs, clock, nextRev, deleted, failures, shown,
                   place, comments>>

PostComment ==
    /\ session.selected_version # NoVersion
    /\ nextRev <= MaxPageObjectIds
    /\ LET st == _handle_and_display_new_comment(comments, session, SelectedFile,
                                                 "u1", clock, <<"c">>, nextRev)
       IN  /\ comments' = st.comments
           /\ session' = st.session
           /\ lastOp' = PageOp("post_comment", nextRev, st)
    /\ clock' = clock + 1
    /\ nextRev' = nextRev + 1
    /\ UNCHANGED <<drive, revdocs, deleted, failures, shown, place>>

EditComment ==
    /\ session.selected_version # NoVersion
    /\ \E comment_id \in CachedCommentIds, new_content \in EditTexts \cup {<< >>} :
         LET st == _handle_comment_edit(comments, session, SelectedFile,
                                        comment_id, new_content)
         IN  /\ comments' = st.comments
             /\ session' = st.session
             /\ lastOp' = [PageOp("edit_comment", comment_id, st)
                              EXCEPT !.content = new_content]
    /\ UNCHANGED <<drive, revdocs, clock, nextRev, deleted, failures, shown, place>>

DeleteComment ==
    /\ session.selected_version # NoVersion
    /\ \E comment_id \in CachedCommentIds :
         LET st == _handle_comment_deletion(comments, session, SelectedFile, comment_id)
         IN  /\ comments' = st.comments
             /\ session' = st.session
             /\ lastOp' = PageOp("delete_comment", comment_id, st)
    /\ UNCHANGED <<drive, revdocs, clock, nextRev, deleted, failures, shown, place>>

ResolveComment ==
    /\ session.selected_version # NoVersion
    /\ \E comment_id \in CachedCommentIds, resolved \in BOOLEAN :
         LET st == _handle_comment_resolve(comments, session, SelectedFile,
                                           comment_id, resolved)
         IN  /\ comments' = st.comments
             /\ session' = st.session
             /\ lastOp' = [PageOp("resolve_comment", comment_id, st)
                              EXCEPT !.resolved = resolved]
    /\ UNCHANGED <<drive, revdocs, clock, nextRev, deleted, failures, shown, place>>

PostReply ==
    /\ session.selected_version # NoVersion
    /\ nextRev <= MaxPageObjectIds
    /\ \E comment_id \in CachedCommentIds, fails \in BOOLEAN :
         LET st == _handle_comment_reply(comments, session, SelectedFile, comment_id,
                                         "u1", clock, <<"r">>, nextRev, fails)
         IN  /\ comments' = st.comments
             /\ session' = st.session
             /\ lastOp' = [PageOp("post_reply", comment_id, st)
                              EXCEPT !.modified = ~fails]
    /\ clock' = clock + 1
    /\ nextRev' = nextRev + 1
    /\ UNCHANGED <<drive, revdocs, deleted, failures, shown, place>>

RemoveReply ==
    /\ session.selected_version # NoVersion
    /\ \E reply_id \in CachedReplyIds :
         LET st == _handle_reply_deletion(comments, session, SelectedFile, reply_id)
         IN  /\ comments' = st.comments
             /\ session' = st.session
             /\ lastOp' = PageOp("delete_reply", reply_id, st)
    /\ UNCHANGED <<drive, revdocs, clock, nextRev, deleted, failures, shown, place>>

NextPage ==
    \/ SelectVersion
    \/ PostComment
    \/ EditComment
    \/ DeleteComment
    \/ ResolveComment
    \/ PostReply
    \/ RemoveReply

SpecPage == InitPage /\ [][NextPage]_vars

(***************************************************************************)
(* The six operations of the comments handler, each addressed to any       *)
(* version of the file and to any comment or reply stored for the file.    *)
(* lastOp keeps the operation and the version it was addressed to, and the *)
(* comment id for a post and a deletion.                                   *)
(***************************************************************************)
StoreOp(name, v, target) ==
    [NoCommentOp EXCEPT !.op = name, !.file = SelectedFile, !.version = v,
                        !.target = target]

PostCommentOn ==
    /\ nextRev <= MaxStoreObjectIds
    /\ \E v \in CommentVersions :
         LET st == save_new_comment(comments, SelectedFile, VersionEntry(v), "u1", clock,
                                    <<"c">>, nextRev)
         IN  /\ comments' = st.comments
             /\ lastOp' = [StoreOp("save_new_comment", v, nextRev)
                              EXCEPT !.ret = st.ret]
    /\ clock' = clock + 1
    /\ nextRev' = nextRev + 1
    /\ UNCHANGED <<drive, revdocs, deleted, failures, shown, place, session>>

PostReplyOn ==
    /\ nextRev <= MaxStoreObjectIds
    /\ \E v \in CommentVersions :
       \E comment_id \in DocCommentIds(comments[SelectedFile]), fails \in BOOLEAN :
         /\ comments' = save_reply(comments, SelectedFile, v, comment_id, "u1",
                                   clock, <<"r">>, nextRev, fails).comments
         /\ lastOp' = StoreOp("save_reply", v, 0)
    /\ clock' = clock + 1
    /\ nextRev' = nextRev + 1
    /\ UNCHANGED <<drive, revdocs, deleted, failures, shown, place, session>>

DeleteReplyOn ==
    /\ \E v \in CommentVersions :
       \E reply_id \in DocReplyIds(comments[SelectedFile]) :
         /\ comments' = delete_reply(comments, SelectedFile, v, reply_id)
         /\ lastOp' = StoreOp("delete_reply", v, 0)
    /\ UNCHANGED <<drive, revdocs, clock, nextRev, deleted, failures, shown,
                   place, session>>

SetResolvedOn ==
    /\ \E v \in CommentVersions, resolved \in BOOLEAN :
       \E comment_id \in DocCommentIds(comments[SelectedFile]) :
         /\ comments' = update_resolve_comment(comments, SelectedFile, v,
                                               comment_id, resolved)
         /\ lastOp' = StoreOp("update_resolve_comment", v, 0)
    /\ UNCHANGED <<drive, revdocs, clock, nextRev, deleted, failures, shown,
                   place, session>>

DeleteCommentOn ==
    /\ \E v \in CommentVersions :
       \E comment_id \in DocCommentIds(comments[SelectedFile]) :
         /\ comments' = delete_comment(comments, SelectedFile, v, comment_id)
         /\ lastOp' = StoreOp("delete_comment", v, comment_id)
    /\ UNCHANGED <<drive, revdocs, clock, nextRev, deleted, failures, shown,
                   place, session>>

EditCommentOn ==
    /\ \E v \in CommentVersions :
       \E comment_id \in DocCommentIds(comments[SelectedFile]) :
         /\ comments' = update_comment_content(comments, SelectedFile, v,
                                               comment_id, <<"e">>)
         /\ lastOp' = StoreOp("update_comment_content", v, 0)
    /\ UNCHANGED <<drive, revdocs, clock, nextRev, deleted, failures, shown,
                   place, session>>

NextStore ==
    \/ PostCommentOn
    \/ PostReplyOn
    \/ DeleteReplyOn
    \/ SetResolvedOn
    \/ DeleteCommentOn
    \/ EditCommentOn

SpecStore == InitComments /\ [][NextStore]_vars

(***************************************************************************)
(* Two sessions, each running upload_version once on the same file.  The   *)
(* calls a session makes to the provider and to the database are the       *)
(* steps; between two calls of one session the other session may run.      *)
(* Here session holds, for each of the two, the locals of its invocation:  *)
(* pc is the call it makes next.                                           *)
(***************************************************************************)
Sessions == {"A", "B"}

\* the file both sessions have on their page: one revision, its metadata
\* stored by upload_file
SharedFile == 1
SharedFileName == "f.txt"

Invocation(up, keep_forever) ==
    [pc |-> "rename", up |-> up, keep_forever |-> keep_forever,
     file_name |-> SharedFileName, made |-> 0,
     latest_version |-> << >>, curr_version |-> << >>, existing_doc |-> FALSE]

InitRace ==
    /\ drive = [f \in FileIds |->
                  [exists |-> TRUE, name |-> SharedFileName,
                   revisions |-> <<[id |-> 1, originalFilename |-> SharedFileName,
                                    modifiedTime |-> RawTime(0),
                                    keepForever |-> FALSE, bytes |-> "F"]>>]]
    /\ revdocs = [f \in FileIds |->
                    [exists |-> TRUE, description |-> <<"d0">>,
                     versions |-> <<[id |-> 1, name |-> SharedFileName,
                                     description |-> <<"d0">>]>>]]
    /\ clock = 1
    /\ nextRev = 2
    /\ deleted = {}
    /\ failures = 0
    /\ shown = << >>
    /\ lastOp = NoOp
    /\ place = [f \in FileIds |-> NoPlace]
    /\ comments = [f \in FileIds |-> NoComments]
    /\ \E upA \in Requests, upB \in Requests, kA \in BOOLEAN, kB \in BOOLEAN :
         session = [s \in Sessions |->
                      IF s = "A" THEN Invocation(upA, kA) ELSE Invocation(upB, kB)]

RaceFrame == UNCHANGED <<revdocs, clock, nextRev, deleted, failures, shown,
                         lastOp, place, comments>>

\* gds_upload_version step 1: the file takes the name of the uploaded file
RenameToVersionName ==
    \E s \in Sessions :
       /\ session[s].pc = "rename"
       /\ drive' = gds_rename_file(drive, SharedFile, session[s].up.name, FALSE)
       /\ session' = [session EXCEPT ![s].pc = "update"]
       /\ RaceFrame

\* gds_upload_version step 2: the content is sent and a revision is stored
UpdateContent ==
    \E s \in Sessions :
       /\ session[s].pc = "update"
       /\ drive' = ProviderUpdateContent(drive, SharedFile, clock, nextRev,
                                         session[s].up.name, session[s].up.bytes)
       /\ session' = [session EXCEPT
                        ![s].made = nextRev,
                        ![s].pc = IF session[s].keep_forever THEN "latest" ELSE "rename_back"]
       /\ clock' = clock + 1
       /\ nextRev' = nextRev + 1
       /\ UNCHANGED <<revdocs, deleted, failures, shown, lastOp, place, comments>>

\* gds_upload_version step 3, first call: the current version is asked for
GetLatestVersion ==
    \E s \in Sessions :
       /\ session[s].pc = "latest"
       /\ session' = [session EXCEPT
                        ![s].latest_version = gds_get_current_version(drive, SharedFile, FALSE),
                        ![s].pc = "pin"]
       /\ UNCHANGED drive
       /\ RaceFrame

\* gds_upload_version step 3, second call: the version found is pinned
PinLatestVersion ==
    \E s \in Sessions :
       /\ session[s].pc = "pin"
       /\ drive' = gds_update_keep_forever_version(drive, SharedFile,
                       session[s].latest_version[1].id, TRUE, FALSE)
       /\ session' = [session EXCEPT ![s].pc = "rename_back"]
       /\ RaceFrame

\* gds_upload_version step 4: the file takes back the name the session read
\* before the upload
RenameBack ==
    \E s \in Sessions :
       /\ session[s].pc = "rename_back"
       /\ drive' = gds_rename_file(drive, SharedFile, session[s].file_name, FALSE)
       /\ session' = [session EXCEPT ![s].pc = "current"]
       /\ RaceFrame

\* upload_version step 2, first call: the current version is asked for
GetCurrentVersion ==
    \E s \in Sessions :
       /\ session[s].pc = "current"
       /\ session' = [session EXCEPT
                        ![s].curr_version = gds_get_current_version(drive, SharedFile, FALSE),
                        ![s].pc = "save"]
       /\ UNCHANGED drive
       /\ RaceFrame

\* upload_version step 2, second call, mongo_save_version: find_one looks
\* for the document of the file
FindVersionDocument ==
    \E s \in Sessions :
       /\ session[s].pc = "save"
       /\ session' = [session EXCEPT
                        ![s].existing_doc = revisions_collection_find_one(revdocs, SharedFile),
                        ![s].pc = "write"]
       /\ UNCHANGED drive
       /\ RaceFrame

\* mongo_save_version after find_one: the metadata is saved under the id
\* and the name of the version found, and success is returned.  The
\* document of the file is there from upload_file and nothing removes it,
\* so find_one has found it and the save is the update_one call
SaveCurrentVersion ==
    \E s \in Sessions :
       /\ session[s].pc = "write"
       /\ session[s].existing_doc
       /\ revdocs' = revisions_collection_update_one(revdocs, SharedFile,
                         session[s].curr_version[1].id,
                         session[s].curr_version[1].originalFilename,
                         session[s].up.description)
       /\ session' = [session EXCEPT ![s].pc = "returned"]
       /\ UNCHANGED <<drive, clock, nextRev, deleted, failures, shown, lastOp,
                      place, comments>>

NextRace ==
    \/ RenameToVersionName
    \/ UpdateContent
    \/ GetLatestVersion
    \/ PinLatestVersion
    \/ RenameBack
    \/ GetCurrentVersion
    \/ FindVersionDocument
    \/ SaveCurrentVersion

SpecRace == InitRace /\ [][NextRace]_vars

(***************************************************************************)
(* The files column of the Version Control page: the search box, the       *)
(* refresh button, the dialogs that change files, and the runs of the      *)
(* script.  Here session is the page's st.session_state and lastOp the     *)
(* dialog that ran last with the list shown when it was opened.            *)
(***************************************************************************)
\* files changed by the dialogs of the files column
MaxFileActions == 2

\* what is typed into the search box
BoxTexts == { << >>, <<"a">> }

CacheKeys == { FormatTerm(v) : v \in {<< >>} \cup { <<t>> : t \in BoxTexts } }

NoFilesOp == [op |-> "none", before |-> << >>]

InitFiles ==
    /\ \E present \in [OpsFileIds -> BOOLEAN], trashed \in [OpsFileIds -> BOOLEAN] :
        /\ present[1]
        /\ \A f \in OpsFileIds : ~present[f] => ~trashed[f]
        /\ \A f \in OpsFileIds : f > 1 /\ present[f] => present[f - 1]
        /\ drive = [f \in OpsFileIds |->
                      IF present[f]
                      THEN [exists |-> TRUE, name |-> "a.txt",
                            revisions |-> OpsRevisions(f, 1, f)]
                      ELSE NoFile]
        /\ revdocs = [f \in OpsFileIds |->
                        IF present[f]
                        THEN [exists |-> TRUE, description |-> <<"d1">>,
                              versions |-> OpsEntries(f, 1)]
                        ELSE NoDoc]
        /\ place = [f \in OpsFileIds |->
                      IF present[f] THEN [parent |-> 1, trashed |-> trashed[f]]
                      ELSE NoPlace]
    /\ clock = MaxOpsFiles * MaxOpsRevs + 1
    /\ nextRev = MaxOpsFiles * MaxOpsRevs + 1
    /\ deleted = {}
    /\ failures = 0
    /\ shown = << >>
    /\ lastOp = NoFilesOp
    /\ comments = [f \in OpsFileIds |-> NoComments]
    /\ session = [search_term_files |-> << >>, Search_files |-> << >>,
                  cache |-> [k \in CacheKeys |-> << >>],
                  files_for_display |-> << << >> >>, files_reset_key |-> 0,
                  rerun |-> TRUE]

\* the script runs: at the start, and after st.rerun()
FilesRun ==
    /\ session.rerun
    /\ session' = _handle_and_display_files(session, drive, place, FALSE)
    /\ UNCHANGED <<drive, revdocs, clock, nextRev, deleted, failures, shown,
                   lastOp, place, comments>>

\* the user changes the text of the search box; the script runs
FilesSearch ==
    /\ ~session.rerun
    /\ \E text \in BoxTexts \ {session.Search_files} :
         session' = _handle_and_display_files(
                        [session EXCEPT !.Search_files = text], drive, place, FALSE)
    /\ UNCHANGED <<drive, revdocs, clock, nextRev, deleted, failures, shown,
                   lastOp, place, comments>>

\* the user clicks the refresh button; the script runs
FilesRefresh ==
    /\ ~session.rerun
    /\ session' = _handle_and_display_files(session, drive, place, TRUE)
    /\ UNCHANGED <<drive, revdocs, clock, nextRev, deleted, failures, shown,
                   lastOp, place, comments>>

FilesOp(name) == [op |-> name, before |-> session.files_for_display]

\* what is uploaded in the Upload New File dialog: file objects with a name
\* and bytes, and the one description typed for all of them (the dialog
\* refuses an empty one).  The description reaches the metadata of the new
\* files and no part of the files table
UploadedFiles == { [name |-> up.name, bytes |-> up.bytes] : up \in Requests }
UploadDescriptions == { <<"d2">> }

\* the Upload New File dialog: on_upload_callback, then st.rerun()
FilesUpload ==
    /\ ~session.rerun
    /\ \E selected_folder \in Folders, n \in 1..MaxFileActions :
       \E files_to_upload \in [1..n -> UploadedFiles],
          description \in UploadDescriptions,
          fa \in FaultAssignments(n, UploadFileFaults) :
         /\ session.files_reset_key + n <= MaxFileActions
         /\ Cardinality({ f \in OpsFileIds : ~drive[f].exists }) >= n
         /\ LET st == UploadFilesLoop([drive |-> drive, revdocs |-> revdocs,
                                       place |-> place, clock |-> clock,
                                       nextRev |-> nextRev, session |-> session],
                                      selected_folder, files_to_upload,
                                      description, fa, 1)
            IN  /\ drive' = st.drive
                /\ revdocs' = st.revdocs
                /\ place' = st.place
                /\ clock' = st.clock
                /\ nextRev' = st.nextRev
                /\ session' = [st.session EXCEPT !.rerun = TRUE]
    /\ lastOp' = FilesOp("upload_file")
    /\ UNCHANGED <<deleted, failures, shown, comments>>

\* the Delete File(s) dialog for the files ticked, or for the one file
\* selected in the table: on_delete_callback for every file, then
\* st.rerun()
FilesDelete ==
    /\ ~session.rerun
    /\ \E selected_files \in Selections(session.files_for_display[1]),
          delete_permanently \in BOOLEAN :
       \E fa \in FaultAssignments(Len(selected_files), {"delete"}) :
         /\ session.files_reset_key + Len(selected_files) <= MaxFileActions
         /\ LET st == DeleteFilesLoop([drive |-> drive, place |-> place,
                                       session |-> session],
                                      selected_files, delete_permanently, fa, 1)
            IN  /\ drive' = st.drive
                /\ place' = st.place
                /\ session' = [st.session EXCEPT !.rerun = TRUE]
    /\ lastOp' = FilesOp("delete_file")
    /\ UNCHANGED <<revdocs, clock, nextRev, deleted, failures, shown, comments>>

\* the Move File(s) dialog for the files ticked, or for the one file
\* selected in the table: on_move_callback, with one
\* _clear_files_session_state at its end, then st.rerun()
FilesMove ==
    /\ ~session.rerun
    /\ session.files_reset_key < MaxFileActions
    /\ \E rows \in Selections(session.files_for_display[1]), selected_folder \in Folders :
       \E fa \in FaultAssignments(Len(rows), {"move"}) :
         place' = on_move_callback(drive, revdocs, place,
                      [i \in 1..Len(rows) |->
                          [id |-> rows[i].id, folder_id |-> rows[i].parent]],
                      selected_folder, fa).place
    /\ session' = [_clear_files_session_state(session) EXCEPT !.rerun = TRUE]
    /\ lastOp' = FilesOp("move_file")
    /\ UNCHANGED <<drive, revdocs, clock, nextRev, deleted, failures, shown,
                   comments>>

\* the Rename dialogs for the files ticked, or for the one file selected in
\* the table: on_rename_callback, with one _clear_files_session_state at
\* its end, then st.rerun()
FilesRename ==
    /\ ~session.rerun
    /\ session.files_reset_key < MaxFileActions
    /\ \E rows \in Selections(session.files_for_display[1]) :
       \E names \in [1..Len(rows) -> FileNames],
          fa \in FaultAssignments(Len(rows), {"rename"}) :
         drive' = on_rename_callback(drive, revdocs, place,
                      [i \in 1..Len(rows) |-> [id |-> rows[i].id, name |-> names[i]]],
                      fa).drive
    /\ session' = [_clear_files_session_state(session) EXCEPT !.rerun = TRUE]
    /\ lastOp' = FilesOp("rename_file")
    /\ UNCHANGED <<revdocs, clock, nextRev, deleted, failures, shown, place,
                   comments>>

\* the Restore file(s) dialog for the files of the trash that are ticked:
\* on_restore_callback, with one _clear_files_session_state at its end,
\* then st.rerun()
FilesRestore ==
    /\ ~session.rerun
    /\ session.files_reset_key < MaxFileActions
    /\ \E selected_files \in Selections(OpsTrashList(drive, place)) :
       \E fa \in FaultAssignments(Len(selected_files), {"restore"}) :
         place' = on_restore_callback(drive, revdocs, place, selected_files, fa).place
    /\ session' = [_clear_files_session_state(session) EXCEPT !.rerun = TRUE]
    /\ lastOp' = FilesOp("restore_file")
    /\ UNCHANGED <<drive, revdocs, clock, nextRev, deleted, failures, shown,
                   comments>>

NextFiles ==
    \/ FilesRun
    \/ FilesSearch
    \/ FilesRefresh
    \/ FilesUpload
    \/ FilesDelete
    \/ FilesMove
    \/ FilesRename
    \/ FilesRestore

SpecFiles == InitFiles /\ [][NextFiles]_vars

(***************************************************************************)
(* Properties                                                              *)
(***************************************************************************)
\* the listing of a file as the Versions table shows it when the
\* provider's listing call succeeds
Listing(f) == get_versions_of_file_for_display(drive, revdocs, f, FALSE)

\* sub occurs in s as a run of consecutive fragments
Contains(s, sub) ==
    \E i \in 1..(Len(s) - Len(sub) + 1) : SubSeq(s, i, i + Len(sub) - 1) = sub

\* revision ids MongoDB holds an entry for
EntryIds(m, f) == Ids(m[f].versions)

\* entries whose revision the provider no longer holds
Orphans(d, m, f) == EntryIds(m, f) \ Ids(d[f].revisions)

\* C1: in upload_version, when the provider rejects the rename or the
\* content update inside gds_upload_version, the handler returns
\* success = false, mongo_save_version is not called and the metadata store
\* is unchanged.
C1_StorageFailureAbortsUpload ==
    [][ (lastOp'.op = "upload_version"
            /\ lastOp'.faults \cap {"rename1", "update"} # {})
        => (/\ ~lastOp'.ok
            /\ "mongo_save_version" \notin lastOp'.calls
            /\ revdocs' = revdocs) ]_vars

\* C2 as claimed: in every reachable state every metadata entry stored for
\* a file has a revision id the provider still holds for that file.
C2_MetadataNeverOutlivesReferent ==
    \A f \in FileIds : Orphans(drive, revdocs, f) = {}

\* C2 as amended: an entry is written only under a revision id the provider
\* holds at that moment, and the set of entries without a revision grows
\* only in an upload_version with keep_only_latest_version (the purge
\* removes no metadata) or in a delete_version whose MongoDB deletion
\* raised after the provider had deleted.
C2_MetadataWrittenAfterReferent ==
    [][ \A f \in FileIds :
          /\ Len(revdocs'[f].versions) > Len(revdocs[f].versions)
                => Last(revdocs'[f].versions).id \in Ids(drive'[f].revisions)
          /\ ~(Orphans(drive', revdocs', f) \subseteq Orphans(drive, revdocs, f))
                => \/ lastOp'.op = "upload_version" /\ lastOp'.keepOnlyLatest
                   \/ lastOp'.op = "delete_version" /\ lastOp'.raised ]_vars

\* C2 witness: an upload with keep_only_latest_version has succeeded, its
\* entry names a revision that exists, and an older entry has lost its
\* revision to the purge.
C2_Witness ==
    /\ lastOp.op = "upload_version" /\ lastOp.keepOnlyLatest /\ lastOp.ok
    /\ Orphans(drive, revdocs, lastOp.file) # {}
    /\ Last(revdocs[lastOp.file].versions).id \in Ids(drive[lastOp.file].revisions)

\* C3: when gds_delete_version fails (the call is rejected or raises),
\* delete_version returns success = false, mongo_delete_version is not
\* called, and the revisions and the metadata are as before.
C3_DeleteStorageFirst ==
    [][ (/\ lastOp'.op = "delete_version"
         /\ \/ "gds_delete" \in lastOp'.faults
            \/ ProviderRejectsDelete(drive, lastOp'.file, lastOp'.target))
        => (/\ ~lastOp'.ok /\ ~lastOp'.raised
            /\ lastOp'.calls = {}
            /\ drive' = drive
            /\ revdocs' = revdocs) ]_vars

\* C3 witness: a deletion the provider would have accepted has failed on
\* the provider call, for a revision that has metadata.
C3_Witness ==
    /\ lastOp.op = "delete_version" /\ "gds_delete" \in lastOp.faults /\ ~lastOp.ok
    /\ lastOp.target \in Ids(drive[lastOp.file].revisions)
    /\ Len(drive[lastOp.file].revisions) >= 2
    /\ lastOp.target \in EntryIds(revdocs, lastOp.file)

\* C4: once delete_version(file, revision) has returned success, the
\* listing of the file never contains the revision id and
\* mongo_get_version(file, revision) finds nothing.
C4_DeletedStaysGone ==
    \A p \in deleted :
        /\ p[2] \notin Ids(Listing(p[1]))
        /\ mongo_get_version(revdocs, p[1], p[2]) = << >>

\* C4 witness: a successful deletion of a revision whose metadata had been
\* saved more than once.
C4_Witness ==
    /\ lastOp.op = "delete_version" /\ lastOp.ok /\ lastOp.pulled >= 2
    /\ <<lastOp.file, lastOp.target>> \in deleted

\* C5: the listing has one entry per revision, numbered 1..N in list order;
\* entries with an unparseable timestamp ("N/A") come before all entries
\* with a valid one, and the valid ones are in ascending order of the
\* modifiedTime shown and of the modifiedTime the provider gave, 1 the
\* oldest and N the newest.
C5_VersionNumbering ==
    \A f \in FileIds :
        LET L == Listing(f)
            R == drive[f].revisions
            Raw(i) == R[CHOOSE k \in 1..Len(R) : R[k].id = L[i].id].modifiedTime
        IN  /\ Len(L) = Len(R)
            /\ { L[i].id : i \in 1..Len(L) } = Ids(R)
            /\ \A i \in 1..Len(L) : L[i].versionNumber = i
            /\ \A i \in 1..Len(L) : L[i].modifiedTime.valid = Raw(i).parseable
            /\ \A i, j \in 1..Len(L) :
                  i < j =>
                    /\ L[j].modifiedTime.valid \/ ~L[i].modifiedTime.valid
                    /\ (L[i].modifiedTime.valid /\ L[j].modifiedTime.valid)
                          => /\ L[i].modifiedTime.sec <= L[j].modifiedTime.sec
                             /\ Raw(i).ticks \div TicksPerSecond
                                    <= Raw(j).ticks \div TicksPerSecond

\* a name whose last fragment is the suffix
HasCurrentSuffix(name) == name # << >> /\ Last(name) = " (current version)"

\* C6: in the list get_versions_of_file_for_display returns for
\* a file with N >= 1 revisions exactly one entry carries the
\* " (current version)" name suffix, and it is the entry numbered N.
C6_SuffixInDisplayListing ==
    \A f \in ExistingFiles :
        LET L == Listing(f)
            Name(i) == <<L[i].originalFilename>>
        IN  L # << >> =>
              /\ Cardinality({ i \in 1..Len(L) : HasCurrentSuffix(Name(i)) }) = 1
              /\ HasCurrentSuffix(Name(Len(L)))

\* C7: an upload_file or upload_version that returned success has stored
\* the given description under the revision it created: the listing shows
\* that description on its highest-numbered entry (for upload_file the
\* listing has one entry, numbered 1).
C7_UploadStoresDescription ==
    (lastOp.op \in {"upload_file", "upload_version"} /\ lastOp.ok)
    => LET L == Listing(lastOp.file)
       IN  /\ L # << >>
           /\ L[Len(L)].id = nextRev - 1
           /\ L[Len(L)].description = lastOp.desc
           /\ lastOp.op = "upload_file" => Len(L) = 1 /\ L[1].versionNumber = 1

\* C8: a revert_version that returned success has added exactly one
\* revision, the last one, holding the bytes of the target; no revert,
\* successful or not, removes a revision.
C8_RevertGrowsHistory ==
    [][ lastOp'.op = "revert_version"
        => LET f == lastOp'.file
               old == drive[f].revisions
               new == drive'[f].revisions
           IN  /\ Len(new) >= Len(old)
               /\ SubSeq(new, 1, Len(old)) = old
               /\ lastOp'.ok
                    => /\ Len(new) = Len(old) + 1
                       /\ \E i \in 1..Len(old) :
                            /\ old[i].id = lastOp'.target
                            /\ Last(new).bytes = old[i].bytes ]_vars

\* C9: after a revert_version that returned success, targeting the
\* revision numbered N with name <name>, the listing shows for the new
\* revision, its highest-numbered entry, a description that contains
\* "Reverted from version N '<name>'." and the user's text when one was given.
C9_RevertDescription ==
    (lastOp.op = "revert_version" /\ lastOp.ok)
    => LET L == Listing(lastOp.file)
           auto == <<"Reverted from version ">> \o IntToStr(lastOp.num)
                      \o <<" '", lastOp.name, "'.">>
       IN  /\ L # << >>
           /\ L[Len(L)].id = nextRev - 1
           /\ Contains(L[Len(L)].description, auto)
           /\ lastOp.desc # << >> => Contains(L[Len(L)].description, lastOp.desc)

\* C10: in revert_version a failure while the target revision is
\* downloaded aborts before any write: success = false, no revision is
\* created, the file keeps its name and no metadata is written.
C10_RevertDownloadFailureAborts ==
    [][ (lastOp'.op = "revert_version"
            /\ lastOp'.faults \cap {"download", "tmpwrite"} # {})
        => (/\ ~lastOp'.ok
            /\ ~lastOp'.created
            /\ lastOp'.calls = {}
            /\ drive' = drive
            /\ revdocs' = revdocs
            /\ nextRev' = nextRev) ]_vars

\* C10 witness: a revert has failed on the download of a revision that
\* exists.
C10_Witness ==
    /\ lastOp.op = "revert_version" /\ "download" \in lastOp.faults /\ ~lastOp.ok
    /\ lastOp.target \in Ids(drive[lastOp.file].revisions)

\* C11: delete_version on the only revision of a file fails, leaves the
\* revision and its metadata in place, and returns an outcome that differs
\* from the one it returns when the provider call fails for another reason.
C11_SoleRevisionConflict ==
    [][ (/\ lastOp'.op = "delete_version"
         /\ lastOp'.faults = {}
         /\ Len(drive[lastOp'.file].revisions) = 1
         /\ lastOp'.target \in Ids(drive[lastOp'.file].revisions))
        => LET f == lastOp'.file
               t == lastOp'.target
           IN  /\ ~lastOp'.ok
               /\ drive' = drive
               /\ revdocs' = revdocs
               /\ delete_version_result(delete_version(drive, revdocs, f, t, {}))
                    # delete_version_result(
                          delete_version(drive, revdocs, f, t, {"gds_delete"})) ]_vars

\* C12: an upload_file whose provider creation fails, with an HttpError or
\* with another exception, returns success = false and leaves both stores as they were; one whose creation
\* succeeded and whose metadata save failed returns success = false, has
\* written no metadata, and has left exactly the new file with its first
\* revision in storage, every other file untouched.
C12_UploadFileFailures ==
    [][ lastOp'.op = "upload_file"
        => LET f == lastOp'.file
           IN  /\ lastOp'.faults \cap {"create", "create_raise"} # {}
                    => /\ ~lastOp'.ok
                       /\ drive' = drive
                       /\ revdocs' = revdocs
               /\ lastOp'.faults = {"mongo_save"}
                    => /\ ~lastOp'.ok
                       /\ revdocs' = revdocs
                       /\ drive'[f].exists
                       /\ Len(drive'[f].revisions) = 1
                       /\ drive'[f].revisions[1].id = nextRev
                       /\ \A g \in FileIds \ {f} : drive'[g] = drive[g] ]_vars

\* C12 witness: an upload_file has failed on the metadata save; the file
\* is in storage with one revision and MongoDB has no document for it.
C12_Witness ==
    /\ lastOp.op = "upload_file" /\ lastOp.faults = {"mongo_save"} /\ ~lastOp.ok
    /\ drive[lastOp.file].exists
    /\ Len(drive[lastOp.file].revisions) = 1
    /\ ~revdocs[lastOp.file].exists

\* C13: after an upload_version with keep_forever that returned success,
\* the listing shows the revision created by the call with keepForever true,
\* and every revision listed before and after has the flag it had.
C13_KeepForeverOnNewRevision ==
    [][ (lastOp'.op = "upload_version" /\ lastOp'.keepForever /\ lastOp'.ok)
        => LET f == lastOp'.file
               old == get_versions_of_file_for_display(drive, revdocs, f, FALSE)
               new == get_versions_of_file_for_display(drive', revdocs', f, FALSE)
           IN  /\ \E i \in 1..Len(new) : new[i].id = nextRev /\ new[i].keepForever
               /\ \A i \in 1..Len(new), j \in 1..Len(old) :
                     new[i].id = old[j].id
                        => new[i].keepForever = old[j].keepForever ]_vars

\* C15: when gds_delete_old_versions returns, the revisions left
\* are the most recent one and those whose deletion failed, in their order;
\* every other revision is gone.
C15_PurgeKeepsNewestOnly ==
    [][ lastOp'.op = "gds_delete_old_versions"
        => LET f == lastOp'.file
               old == drive[f].revisions
               Kept(r) == r.id = Last(old).id \/ r.id \in lastOp'.failIds
           IN  drive'[f].revisions = SelectSeq(old, Kept) ]_vars

\* C14: rename_file, move_file and update_version_keep_forever return
\* success = false with a failure message whenever the provider call
\* failed, and return success = true only when the name, the folder or the
\* keepForever flag is afterwards the one asked for.
C14_NoSilentWriteFailure ==
    [][ (lastOp'.op \in {"rename_file", "move_file", "update_version_keep_forever"})
        => \A n \in 1..Len(lastOp'.items) :
           LET item == lastOp'.items[n]
               returned == lastOp'.returns[n]
           IN  /\ lastOp'.faults[n] # {}
                    => /\ ~returned.success
                       /\ returned.message
                            \notin { <<"File renamed successfully.">>,
                                     <<"File moved successfully.">>,
                                     <<"Keep forever status updated successfully.">> }
               /\ returned.success
                    => /\ lastOp'.op = "rename_file"
                            => drive'[item.id].name = item.name
                       /\ lastOp'.op = "move_file"
                            => place'[item.id].parent = item.folder
                       /\ lastOp'.op = "update_version_keep_forever"
                            => \E i \in 1..Len(drive'[item.id].revisions) :
                                 /\ drive'[item.id].revisions[i].id = item.version
                                 /\ drive'[item.id].revisions[i].keepForever
                                       = item.keep_forever ]_vars

\* the number of items of the last batch whose handler call returned success
BatchSuccesses == Cardinality({ i \in 1..Len(lastOp.results) : lastOp.results[i] })

\* C16: a batch delete-versions, move-files, rename-files or restore-files
\* over N selected items has called the handler for every item once, in
\* order, and has ended with the message "<Verb> K of N <items>." where K is
\* the number of calls that returned success, flagged as a success exactly
\* when K = N.
C16_BatchAttemptsAllAndCounts ==
    (lastOp.op \in {"batch_delete_versions", "batch_move_files",
                    "batch_rename_files", "batch_restore_files"})
    => LET n == Len(lastOp.items)
           verb == CASE lastOp.op = "batch_delete_versions" -> "Deleted "
                     [] lastOp.op = "batch_move_files" -> "Moved "
                     [] lastOp.op = "batch_rename_files" -> "Renamed "
                     [] OTHER -> "Restored "
           noun == IF lastOp.op = "batch_delete_versions" THEN " versions."
                   ELSE " files."
       IN  /\ lastOp.attempted = lastOp.items
           /\ Len(lastOp.results) = n
           /\ lastOp.message = <<verb>> \o IntToStr(BatchSuccesses) \o <<" of ">>
                                  \o IntToStr(n) \o <<noun>>
           /\ lastOp.ok = (BatchSuccesses = n)

\* the comments of the scope (file f, version v)
ScopeComments(cm, f, v) == mongo_get_comments_of_version(cm, f, v)

InScope(cm, f, v, comment_id) ==
    \E j \in 1..Len(ScopeComments(cm, f, v)) :
        ScopeComments(cm, f, v)[j].id = comment_id

\* C17: a reply posted to a comment id that is not a comment of the given
\* file and version, an id that exists only under another version included,
\* returns nothing and changes nothing in the collection
C17_ReplyToMissingComment ==
    [][(/\ lastOp'.op = "save_reply"
        /\ ~InScope(comments, lastOp'.file, lastOp'.version, lastOp'.target))
       => (lastOp'.ret = << >> /\ comments' = comments)]_vars

\* a reply to an id that is a comment of another version of the same file
\* was refused
C17_Witness ==
    /\ lastOp.op = "save_reply"
    /\ lastOp.ret = << >>
    /\ ~InScope(comments, lastOp.file, lastOp.version, lastOp.target)
    /\ HasVersion(comments[lastOp.file], lastOp.version)
    /\ \E v \in CommentVersions :
          v # lastOp.version /\ InScope(comments, lastOp.file, v, lastOp.target)

\* the replies of a comment without the one with the id
WithoutReply(replies, reply_id) ==
    LET Other(r) == r.id # reply_id IN SelectSeq(replies, Other)

\* C18: deleting a reply by its id in a scope (file, version) takes exactly
\* that reply out of the comment of the scope that holds it; the documents,
\* their versions, every comment (id, user, timestamp, content, resolved),
\* every other reply and every other scope stay as they were
C18_DeleteReplyRemovesOnlyReply ==
    [][lastOp'.op = "delete_reply" =>
        \A g \in FileIds :
            /\ comments'[g].exists = comments[g].exists
            /\ Len(comments'[g].versions) = Len(comments[g].versions)
            /\ \A i \in 1..Len(comments[g].versions) :
                 LET old == comments[g].versions[i]
                     new == comments'[g].versions[i]
                 IN  /\ new.id = old.id
                     /\ new.name = old.name
                     /\ Len(new.comments) = Len(old.comments)
                     /\ \A j \in 1..Len(old.comments) :
                          new.comments[j] =
                            [old.comments[j] EXCEPT !.replies =
                               IF g = lastOp'.file /\ old.id = lastOp'.version
                               THEN WithoutReply(@, lastOp'.target)
                               ELSE @]]_vars

\* a reply was deleted from a comment that keeps another reply
C18_Witness ==
    /\ lastOp.op = "delete_reply"
    /\ lastOp.modified
    /\ ~DocHasReply(comments[lastOp.file], lastOp.target)
    /\ \E j \in 1..Len(ScopeComments(comments, lastOp.file, lastOp.version)) :
          Len(ScopeComments(comments, lastOp.file, lastOp.version)[j].replies) > 0

IsResolved(cm, f, v, comment_id) ==
    \A j \in 1..Len(ScopeComments(cm, f, v)) :
        ScopeComments(cm, f, v)[j].id = comment_id
            => ScopeComments(cm, f, v)[j].resolved

\* C19: marking a comment of the scope resolved leaves it resolved, and the
\* same call made again right after leaves the whole collection as the
\* first call left it
C19_SetResolvedIdempotent ==
    [][(/\ lastOp'.op = "update_resolve_comment"
        /\ lastOp'.resolved
        /\ InScope(comments, lastOp'.file, lastOp'.version, lastOp'.target))
       => (/\ IsResolved(comments', lastOp'.file, lastOp'.version, lastOp'.target)
           /\ InScope(comments', lastOp'.file, lastOp'.version, lastOp'.target)
           /\ lastOp'.repeat => comments' = comments)]_vars

\* a comment with a reply was marked resolved twice in a row
C19_Witness ==
    /\ lastOp.op = "update_resolve_comment"
    /\ lastOp.resolved
    /\ lastOp.repeat
    /\ ~lastOp.modified
    /\ \E j \in 1..Len(ScopeComments(comments, lastOp.file, lastOp.version)) :
          LET c == ScopeComments(comments, lastOp.file, lastOp.version)[j]
          IN  c.id = lastOp.target /\ c.resolved /\ Len(c.replies) > 0

\* the text is found in the content at some offset when case is ignored
FoundIgnoringCase(text, content) ==
    \E k \in 0..(Len(content) - Len(text)) :
        \A m \in 1..Len(text) : LowerChar(text[m]) = LowerChar(content[k + m])

\* the comment passes the three filters
Passes(c, criteria) ==
    /\ criteria.status = "resolved" => c.resolved
    /\ criteria.status = "unresolved" => ~c.resolved
    /\ criteria.user_filter # "all" => c.user = criteria.user_filter
    /\ criteria.search_text # << >> => FoundIgnoringCase(criteria.search_text, c.content)

\* C20: the filtered comments are exactly the comments of the session that
\* pass the status filter, the user filter and the search of the text in the
\* comment's own content with case ignored, in their original order; the
\* replies play no part and the comments of the session stay as they were
C20_FilterIsMatchingSubsequence ==
    [][lastOp'.op = "apply_filters" =>
        /\ session'.comments = session.comments
        /\ \E pos \in [1..Len(shown') -> 1..Len(session.comments)] :
             /\ \A n \in 1..Len(shown') : shown'[n] = session.comments[pos[n]]
             /\ \A n \in 1..(Len(shown') - 1) : pos[n] < pos[n + 1]
             /\ \A i \in 1..Len(session.comments) :
                  Passes(session.comments[i], session'.filter_criteria)
                      <=> \E n \in 1..Len(shown') : pos[n] = i
        /\ (session'.filter_criteria = [NoFilter EXCEPT !.status = "resolved"]
              => \A i \in 1..Len(session.comments) :
                    session.comments[i].resolved
                        <=> \E n \in 1..Len(shown') : shown'[n] = session.comments[i])]_vars

\* a search in another case than the content kept one comment and dropped
\* another one
C20_Witness ==
    /\ lastOp.op = "apply_filters"
    /\ session.filter_criteria.search_text = <<"a", "b">>
    /\ Len(shown) = 1
    /\ Len(session.comments) = 2
    /\ shown[1] = session.comments[2]

\* the faults of an upload_version call that hit gds_upload_version between
\* the first rename and the rename back
MidUploadFaults == {"update", "getcur_pin", "pin"}

\* C23: a new version uploaded without a failing step leaves the file under
\* its original name and the new revision under the uploaded file's name; a
\* failure after the first rename and before the rename back leaves the file
\* under the uploaded file's name, with every revision it had (calls that do
\* not ask for the purge of the old versions)
C23_UploadVersionStepOrder ==
    [][(lastOp'.op = "upload_version" /\ ~lastOp'.keepOnlyLatest) =>
        LET f == lastOp'.file
            F == lastOp'.faults
        IN  /\ F \cap ({"rename1", "rename2"} \cup MidUploadFaults) = {}
                => /\ drive'[f].name = drive[f].name
                   /\ Len(drive'[f].revisions) = Len(drive[f].revisions) + 1
                   /\ Last(drive'[f].revisions).originalFilename = lastOp'.up
            /\ (F \cap {"rename1", "rename2"} = {} /\ F \cap MidUploadFaults # {})
                => /\ drive'[f].name = lastOp'.up
                   /\ \A i \in 1..Len(drive[f].revisions) :
                        drive'[f].revisions[i] = drive[f].revisions[i]]_vars

\* C24: saving metadata creates the document of the file with one entry
\* when there is none and appends one entry otherwise, whatever is stored
\* already: a second save for the same revision id leaves two entries
C24_SaveVersionAppends ==
    [][lastOp'.op = "mongo_save_version" =>
        LET f == lastOp'.file
            entry == [id |-> lastOp'.target, name |-> "a.txt",
                      description |-> lastOp'.desc]
        IN  /\ revdocs'[f].exists
            /\ ~revdocs[f].exists => revdocs'[f].versions = <<entry>>
            /\ revdocs[f].exists => revdocs'[f].versions = Append(revdocs[f].versions, entry)
            /\ EntryCount(revdocs', f, lastOp'.target)
                   = EntryCount(revdocs, f, lastOp'.target) + 1
            /\ \A g \in FileIds \ {f} : revdocs'[g] = revdocs[g]]_vars

\* metadata was saved a second time for a revision id and two entries are
\* stored for it
C24_Witness ==
    /\ lastOp.op = "mongo_save_version"
    /\ EntryCount(revdocs, lastOp.file, lastOp.target) = 2
    /\ Len(revdocs[lastOp.file].versions) = 2

\* the descriptions stored for a revision id of a file
StoredDescriptions(m, f, vid) ==
    { m[f].versions[i].description :
        i \in { j \in 1..Len(m[f].versions) : m[f].versions[j].id = vid } }

\* C25: the listing of a file has one entry for each of its revisions and no
\* other entry; a revision without a stored entry is listed as "N/A", a
\* revision with an entry under a description stored for it, and an entry
\* stored for an id that is no revision is not listed
C25_ListingMatchesRevisions ==
    lastOp.op = "list_versions" =>
        LET f == lastOp.file
            revisions == drive[f].revisions
        IN  /\ Len(shown) = Len(revisions)
            /\ \A i \in 1..Len(revisions) :
                 Cardinality({ k \in 1..Len(shown) : shown[k].id = revisions[i].id }) = 1
            /\ \A k \in 1..Len(shown) :
                 /\ shown[k].id \in Ids(revisions)
                 /\ IF StoredDescriptions(revdocs, f, shown[k].id) = {}
                    THEN shown[k].description = NADescription
                    ELSE shown[k].description \in StoredDescriptions(revdocs, f, shown[k].id)

\* the description of the entry saved last for a revision id
LastSavedDescription(m, f, vid) ==
    LET found == { i \in 1..Len(m[f].versions) : m[f].versions[i].id = vid }
    IN  m[f].versions[CHOOSE i \in found : \A j \in found : j <= i].description

\* C29: the listing shows for each revision the description of the save
\* made last for its id, also when more than one entry is stored for it
C29_ListingShowsLatestDescription ==
    lastOp.op = "list_versions" =>
        \A k \in 1..Len(shown) :
            StoredDescriptions(revdocs, lastOp.file, shown[k].id) # {}
                => shown[k].description
                      = LastSavedDescription(revdocs, lastOp.file, shown[k].id)

\* C28: whenever a version is selected, the comments cached in the session
\* are the comments the store returns for the selected file and version
C28_SessionCacheMatchesStore ==
    session.selected_version # NoVersion =>
        session.comments
            = mongo_get_comments_of_version(comments, SelectedFile,
                                            session.selected_version.id)

\* a reply was posted from the page and the cached comment holds it
C28_Witness ==
    /\ lastOp.op = "post_reply"
    /\ lastOp.ret = {"mongo_save_reply"}
    /\ session.selected_version # NoVersion
    /\ Len(session.comments) = 1
    /\ Len(session.comments[1].replies) = 1

\* C26: an edit with an empty text or with the text the comment has issues
\* no update and changes neither the store nor the session; an edit with
\* another text changes the content of that comment in the store and
\* nothing else there
C26_EditOnlyWhenTextDiffers ==
    [][lastOp'.op = "edit_comment" =>
        LET current == SessionComment(session, lastOp'.target)[1].content
            Edited(c) == IF c.id = lastOp'.target
                         THEN [c EXCEPT !.content = lastOp'.content] ELSE c
        IN  IF lastOp'.content = << >> \/ lastOp'.content = current
            THEN /\ lastOp'.ret = {}
                 /\ comments' = comments
                 /\ session' = session
            ELSE /\ lastOp'.ret = {"mongo_update_comment_content"}
                 /\ \A f \in FileIds :
                      /\ comments'[f].exists = comments[f].exists
                      /\ Len(comments'[f].versions) = Len(comments[f].versions)
                      /\ \A i \in 1..Len(comments[f].versions) :
                           /\ comments'[f].versions[i].id = comments[f].versions[i].id
                           /\ Len(comments'[f].versions[i].comments)
                                 = Len(comments[f].versions[i].comments)
                           /\ \A j \in 1..Len(comments[f].versions[i].comments) :
                                comments'[f].versions[i].comments[j]
                                   = Edited(comments[f].versions[i].comments[j])
                 /\ SessionComment(session', lastOp'.target)[1].content = lastOp'.content]_vars

\* the edit dialog was confirmed with the text an earlier edit had given
\* the comment, and no update was issued
C26_Witness ==
    /\ lastOp.op = "edit_comment"
    /\ lastOp.content = <<"e">>
    /\ lastOp.ret = {}
    /\ SessionComment(session, lastOp.target)[1].content = <<"e">>

\* the lists of comments of the selected file, one for each version
ListsOf(cm) ==
    [v \in CommentVersions |-> mongo_get_comments_of_version(cm, SelectedFile, v)]

\* the ids of the comments of a list
ListedIds(list) == { list[j].id : j \in 1..Len(list) }

\* C21: an operation addressed to a version leaves the comment lists of the
\* other versions as they were and brings no comment into the list of its
\* own version except the one it posts, whose id no list held; so a comment
\* is listed for the version it was posted on and for no other
C21_CommentStaysInItsScope ==
    [][lastOp'.op # "none" =>
        LET before == ListsOf(comments)
            after == ListsOf(comments')
            idsBefore == [v \in CommentVersions |-> ListedIds(before[v])]
            idsAfter == [v \in CommentVersions |-> ListedIds(after[v])]
            r == lastOp'.version
        IN  /\ \A v \in CommentVersions \ {r} : after[v] = before[v]
            /\ IF lastOp'.op = "save_new_comment"
               THEN /\ idsAfter[r] = idsBefore[r] \cup {lastOp'.target}
                    /\ \A v \in CommentVersions : lastOp'.target \notin idsBefore[v]
               ELSE idsAfter[r] \subseteq idsBefore[r]
            /\ \A v, w \in CommentVersions :
                 v # w => idsAfter[v] \cap idsAfter[w] = {}]_vars

\* a comment of version 1 was addressed through version 2 for deletion
\* while both versions hold a comment
C21_Witness ==
    /\ lastOp.op = "delete_comment"
    /\ lastOp.version = 2
    /\ lastOp.target \in ListedIds(ListsOf(comments)[1])
    /\ ListedIds(ListsOf(comments)[2]) # {}

\* the ids of the comments of a list, in the order of the list
IdsInOrder(list) == [j \in 1..Len(list) |-> list[j].id]

\* the comments of the list after are comments of the list before, in the
\* order they had before
KeepsOrder(before, after) ==
    \A i, j \in 1..Len(after) :
       i < j => \E k, l \in 1..Len(before) :
                   /\ k < l
                   /\ before[k] = after[i]
                   /\ before[l] = after[j]

\* C22: posting a comment on a version returns the comment, whether or not
\* the file has a document or the version an entry, and the list of the
\* version is then the list before with the new comment, unresolved and
\* without replies, at its end; every other operation leaves the comments
\* that remain in a list in the order they had
C22_PostAppendsAndOrderKept ==
    [][lastOp'.op # "none" =>
        LET before == ListsOf(comments)
            after == ListsOf(comments')
        IN  IF lastOp'.op = "save_new_comment"
            THEN /\ Len(lastOp'.ret) = 1
                 /\ lastOp'.ret[1].id = lastOp'.target
                 /\ lastOp'.ret[1].resolved = FALSE
                 /\ lastOp'.ret[1].replies = << >>
                 /\ after[lastOp'.version]
                      = Append(before[lastOp'.version], lastOp'.ret[1])
            ELSE \A v \in CommentVersions :
                   KeepsOrder(IdsInOrder(before[v]), IdsInOrder(after[v]))]_vars

\* three comments were posted on a version, each at the end of its list,
\* and the second was deleted: the first and the third are left, in that
\* order
C22_Witness ==
    /\ lastOp.op = "delete_comment"
    /\ lastOp.target = 2
    /\ IdsInOrder(mongo_get_comments_of_version(comments, SelectedFile, lastOp.version))
          = <<1, 3>>

\* the metadata entries stored for a revision of the shared file
EntriesFor(rid) ==
    SelectSeq(revdocs[SharedFile].versions, LAMBDA e : e.id = rid)

\* C27: once both sessions have returned success, the revision each of them
\* created has exactly one metadata entry, with the description the session
\* gave and the name of the file the session uploaded
C27_ConcurrentUploadsKeepMetadata ==
    (\A s \in Sessions : session[s].pc = "returned") =>
        \A s \in Sessions :
            /\ Len(EntriesFor(session[s].made)) = 1
            /\ EntriesFor(session[s].made)[1].description = session[s].up.description
            /\ EntriesFor(session[s].made)[1].name = session[s].up.name

\* C30: when the page has settled, the file list shown is the one storage
\* gives for the text of the search box: after a dialog that changes files
\* it is fetched again, with the box empty and with a search term
C30_FileListFetchedAfterAction ==
    ~session.rerun =>
        session.files_for_display
            = <<FetchFiles(drive, place, OrNone(<<session.Search_files>>))>>

\* the page has settled after a dialog changed the files, the search box
\* empty, and the list shown is not the one the dialog was opened on
C30_Witness ==
    /\ ~session.rerun
    /\ lastOp.op # "none"
    /\ session.Search_files = << >>
    /\ session.files_for_display # lastOp.before

====
